---------------------------- MODULE Spec2Model ----------------------------
(***************************************************************************)
(* Reference resolution of the AI Study Bible: the book canonicalizer      *)
(* (services/bibleService.ts, canonicalizeBook and its helpers) and the    *)
(* reference parser of the search box (App.tsx, parseReferencesFromString).*)
(*                                                                         *)
(* A JavaScript string is modelled as the sequence of its UTF-16 code      *)
(* units (natural numbers): "John" is <<74,111,104,110>>.  The other       *)
(* JavaScript values the code can hold in a string-typed variable are      *)
(* sequences with a negative entry, so that every value compares with      *)
(* every other one.                                                        *)
(*                                                                         *)
(* The specifications share the variables:                                 *)
(*   SpecCanon  canonicalizeBook applied to a book text and then to its    *)
(*              own result;                                                *)
(*   SpecParse  parseReferencesFromString applied to one typed reference;  *)
(*   SpecMulti  parseReferencesFromString applied to a list of segments;   *)
(*   SpecSearch the search form of App.tsx: handleSearch and the promises  *)
(*              it awaits;                                                 *)
(*   SpecFetch, SpecMeta  the verse fetcher and findBookMetadata applied   *)
(*              to a book text;                                            *)
(*   SpecSanitize, SpecInterlinear, SpecAnalysis, SpecChat  the service of *)
(*              services/geminiService.ts: the transliteration sanitizer,  *)
(*              the interlinear branch, getVerseAnalysis and its cache,    *)
(*              sendMessageToBot;                                          *)
(*   SpecTelugu the transliteration of components/VerseTools.tsx;          *)
(*   SpecNavigate  the selection of book and chapter: the page handlers,   *)
(*              the modal of NavigationPane, the hash and the search;      *)
(*   SpecReader the load of the selected chapter and its fetches;          *)
(*   SpecThrottle  safeGenerate of services/geminiService.ts in time;      *)
(*   SpecTools  the tabs of components/VerseTools.tsx and their loads;     *)
(*   SpecHighlights  hooks/useHighlights.ts against its table;             *)
(*   SpecNotes  the load of context/NotesContext.tsx.                      *)
(***************************************************************************)
EXTENDS Integers, Sequences, FiniteSets, TLC

VARIABLES
  raw,        \* canonicalizeBook: the argument of the first call
  rets,       \* canonicalizeBook: the values returned so far, each call fed the last
  typed,      \* the search box: what the user typed, field by field (a reference or a list)
  refString,  \* parseReferencesFromString: the argument
  parsed,     \* parseReferencesFromString: the outcome, <<>> before the call
  \* App.tsx, the state of the component
  searchQuery,
  searchError,
  isSearchView,
  isSearching,
  searchResults,
  selectedBook,
  selectedChapter,
  selectedVerseRef,
  \* handleSearch: where the handler stands, and what its run has come to
  pc,
  outcome,
  searches,   \* how many searches were submitted
  \* the verse API and the generator: the requests sent to them so far
  requests,
  \* services/geminiService.ts
  verseCache,     \* the Map of the analyses: a function from cache keys to texts
  chatInstances,  \* the Map of the chats: a function from chat modes to the model of the chat
  calls,          \* the calls of the asynchronous functions of the service made so far
  returned,       \* what these calls returned, in the order they returned
  \* App.tsx, the reading view, and components/NavigationPane.tsx
  verses,          \* the chapter on display: <<>> or <<[book, chapter]>>, whose verses they are
  verseError,
  isLoadingVerses,
  loads,           \* the calls of fetchChapter that have not settled
  started,         \* how many calls of fetchChapter were made
  effectDeps,      \* [selectedBook, selectedChapter, isSearchView] at the last run of the load effect
  isModalOpen,     \* NavigationPane: the modal of the books and chapters is open
  tempBook,        \* NavigationPane: the book picked in the modal
  selectionStep,   \* NavigationPane: "BOOK" or "CHAPTER"
  hashReadings,    \* the hashes the address bar is given, as parseHashAndSetState reads them
  \* services/geminiService.ts, the throttle of safeGenerate
  clock,                \* Date.now(), in milliseconds
  lastCall,
  globalCooldownUntil,
  runs,                 \* the calls of safeGenerate: where each stands
  settled,              \* the call that settled last: what it caught, what it threw or returned
  log,                  \* how many requests were sent, when the last one, when the last failures
  \* components/VerseTools.tsx
  activeTab, toolLanguage, verseId, analysis, loading, errorMsg,
  analysisChanged,      \* setAnalysis was called since the effects last ran
  toolLoads,            \* the calls of loadTab that have not settled
  toolStarted,          \* how many calls of loadTab were made
  toolDeps,             \* [activeTab, language, verseId] at the last run of the effects
  \* context/AuthContext.tsx
  user,                 \* << >> when nobody is signed in, else << id >>
  \* hooks/useHighlights.ts
  highlights, hlLoading, hlError, requestIdRef,
  hlRequests,           \* the requests to the table of highlights that have not settled
  stored,               \* the rows of the table of highlights
  applied,              \* the load whose answer setHighlights(map) was last given
  hlDeps,               \* [userId, book, chapter] at the last run of the load effect
  \* context/NotesContext.tsx
  notesByKey, notesLoading,
  noteLoads,            \* the calls of getAllNotesForUser that have not settled
  notesDeps             \* [userId] at the last run of the load effect

parseVars == <<raw, rets, typed, refString, parsed>>

appVars == <<searchQuery, searchError, isSearchView, isSearching, searchResults,
             selectedBook, selectedChapter, selectedVerseRef, pc, outcome, searches>>

geminiVars == <<verseCache, chatInstances, calls, returned>>

loadVars == <<verses, verseError, isLoadingVerses, loads, started, effectDeps>>

modalVars == <<isModalOpen, tempBook, selectionStep>>

readerVars == <<loadVars, modalVars, hashReadings>>

throttleVars == <<clock, lastCall, globalCooldownUntil, runs, settled, log>>

toolsVars == <<activeTab, toolLanguage, verseId, analysis, loading, errorMsg,
               analysisChanged, toolLoads, toolStarted, toolDeps>>

highlightVars == <<highlights, hlLoading, hlError, requestIdRef, hlRequests, stored, applied, hlDeps>>

notesVars == <<notesByKey, notesLoading, noteLoads, notesDeps>>

accountVars == <<user, highlightVars, notesVars>>

\* the variables of the parts modelled after the reading view
afterReader == <<throttleVars, toolsVars, accountVars>>

\* the variables no step of the throttle changes
besideThrottle == <<parseVars, appVars, requests, geminiVars, readerVars, toolsVars, accountVars>>

\* the variables no step of the tabs of a verse changes
besideTools == <<parseVars, appVars, requests, geminiVars, readerVars, throttleVars, accountVars>>

\* the variables no step of the session, the highlights or the notes changes
besideAccount == <<parseVars, appVars, requests, geminiVars, readerVars, throttleVars, toolsVars>>

laterVars == <<readerVars, throttleVars, toolsVars, accountVars>>

vars == <<parseVars, appVars, requests, geminiVars, laterVars>>

(***************************************************************************)
(* JavaScript values other than strings.                                   *)
(***************************************************************************)
\* undefined: what a property lookup that finds nothing evaluates to
Undefined == <<-1>>
\* the function Object, which every plain object inherits as "constructor"
ObjectFunction == <<-2>>
\* the object Object.prototype, which every plain object answers for "__proto__"
ObjectPrototype == <<-3>>

IsString(v) == \A i \in 1..Len(v) : v[i] >= 0

\* ToBoolean: undefined and "" are falsy, objects and other strings truthy
Truthy(v) == v # Undefined /\ v # <<>>

\* obj[key] of a plain object when key is no own property: the members of
\* Object.prototype.  The two all-lower-case names are modelled; the others
\* (toString, valueOf, hasOwnProperty, ...) are camel-cased and no input of
\* this model spells them.
ObjectPrototypeGet(key) ==
  IF key = <<99,111,110,115,116,114,117,99,116,111,114>>      \* "constructor"
    THEN ObjectFunction
    ELSE IF key = <<95,95,112,114,111,116,111,95,95>>          \* "__proto__"
      THEN ObjectPrototype
      ELSE Undefined

\* the element of a set of one element: TheOne({F(x) : x \in {e}}) is F(e) with
\* e evaluated once, however often F uses it
TheOne(S) == CHOOSE x \in S : TRUE

(***************************************************************************)
(* Character classes and string primitives of JavaScript.                  *)
(***************************************************************************)
\* \s of a regular expression, and what trim() strips
IsWs(c) ==
  c \in {9, 10, 11, 12, 13, 32, 160, 5760, 8232, 8233, 8239, 8287, 12288, 65279}
    \/ (c >= 8192 /\ c <= 8202)

\* what "." of a regular expression does not match
IsLineTerminator(c) == c \in {10, 13, 8232, 8233}

\* \d of a regular expression: the ASCII digits only
IsDigit(c) == c >= 48 /\ c <= 57

IsTeluguDigit(c) == c >= 3174 /\ c <= 3183

\* String.prototype.toLowerCase on the characters the inputs are drawn from
\* (ASCII, the Telugu block, a few punctuation marks): only A-Z have a lower case
toLowerCase(s) == [i \in 1..Len(s) |-> IF s[i] >= 65 /\ s[i] <= 90 THEN s[i] + 32 ELSE s[i]]

\* String.prototype.trim
trim(s) ==
  LET keep == {i \in 1..Len(s) : ~IsWs(s[i])}
  IN  IF keep = {} THEN <<>>
      ELSE SubSeq(s, CHOOSE i \in keep : \A j \in keep : i <= j,
                     CHOOSE i \in keep : \A j \in keep : i >= j)

\* String.prototype.startsWith
startsWith(s, prefix) == Len(prefix) <= Len(s) /\ SubSeq(s, 1, Len(prefix)) = prefix

\* the end of the run of white space (of digits) that starts at position i:
\* the first position from i on that holds no such character
SkipWs(s, i) ==
  CHOOSE j \in i..(Len(s) + 1) :
    /\ \A k \in i..(j - 1) : IsWs(s[k])
    /\ (j = Len(s) + 1 \/ ~IsWs(s[j]))

SkipDigits(s, i) ==
  CHOOSE j \in i..(Len(s) + 1) :
    /\ \A k \in i..(j - 1) : IsDigit(s[k])
    /\ (j = Len(s) + 1 \/ ~IsDigit(s[j]))

\* parseInt(digits, 10) of a non-empty run of ASCII digits
RECURSIVE parseInt(_)
parseInt(digits) ==
  IF digits = <<>> THEN 0
  ELSE 10 * parseInt(SubSeq(digits, 1, Len(digits) - 1)) + (digits[Len(digits)] - 48)

\* s.indexOf(part) + 1, or 0 when part does not occur in s
IndexOf(s, part) ==
  LET at == {i \in 1..(Len(s) - Len(part) + 1) : SubSeq(s, i, i + Len(part) - 1) = part}
  IN  IF at = {} THEN 0 ELSE CHOOSE i \in at : \A j \in at : i <= j

\* data/bibleMetaWithVerseCounts: the 66 books in canon order, each with its
\* number of chapters (the names are those of bookNameToAbbreviation).
BIBLE_META_WITH_VERSE_COUNTS ==
  <<
    [name |-> <<71,101,110,101,115,105,115>>, chapters |-> 50],  \* Genesis -> 50
    [name |-> <<69,120,111,100,117,115>>, chapters |-> 40],  \* Exodus -> 40
    [name |-> <<76,101,118,105,116,105,99,117,115>>, chapters |-> 27],  \* Leviticus -> 27
    [name |-> <<78,117,109,98,101,114,115>>, chapters |-> 36],  \* Numbers -> 36
    [name |-> <<68,101,117,116,101,114,111,110,111,109,121>>, chapters |-> 34],  \* Deuteronomy -> 34
    [name |-> <<74,111,115,104,117,97>>, chapters |-> 24],  \* Joshua -> 24
    [name |-> <<74,117,100,103,101,115>>, chapters |-> 21],  \* Judges -> 21
    [name |-> <<82,117,116,104>>, chapters |-> 4],  \* Ruth -> 4
    [name |-> <<49,32,83,97,109,117,101,108>>, chapters |-> 31],  \* 1 Samuel -> 31
    [name |-> <<50,32,83,97,109,117,101,108>>, chapters |-> 24],  \* 2 Samuel -> 24
    [name |-> <<49,32,75,105,110,103,115>>, chapters |-> 22],  \* 1 Kings -> 22
    [name |-> <<50,32,75,105,110,103,115>>, chapters |-> 25],  \* 2 Kings -> 25
    [name |-> <<49,32,67,104,114,111,110,105,99,108,101,115>>, chapters |-> 29],  \* 1 Chronicles -> 29
    [name |-> <<50,32,67,104,114,111,110,105,99,108,101,115>>, chapters |-> 36],  \* 2 Chronicles -> 36
    [name |-> <<69,122,114,97>>, chapters |-> 10],  \* Ezra -> 10
    [name |-> <<78,101,104,101,109,105,97,104>>, chapters |-> 13],  \* Nehemiah -> 13
    [name |-> <<69,115,116,104,101,114>>, chapters |-> 10],  \* Esther -> 10
    [name |-> <<74,111,98>>, chapters |-> 42],  \* Job -> 42
    [name |-> <<80,115,97,108,109,115>>, chapters |-> 150],  \* Psalms -> 150
    [name |-> <<80,114,111,118,101,114,98,115>>, chapters |-> 31],  \* Proverbs -> 31
    [name |-> <<69,99,99,108,101,115,105,97,115,116,101,115>>, chapters |-> 12],  \* Ecclesiastes -> 12
    [name |-> <<83,111,110,103,32,111,102,32,83,111,108,111,109,111,110>>, chapters |-> 8],  \* Song of Solomon -> 8
    [name |-> <<73,115,97,105,97,104>>, chapters |-> 66],  \* Isaiah -> 66
    [name |-> <<74,101,114,101,109,105,97,104>>, chapters |-> 52],  \* Jeremiah -> 52
    [name |-> <<76,97,109,101,110,116,97,116,105,111,110,115>>, chapters |-> 5],  \* Lamentations -> 5
    [name |-> <<69,122,101,107,105,101,108>>, chapters |-> 48],  \* Ezekiel -> 48
    [name |-> <<68,97,110,105,101,108>>, chapters |-> 12],  \* Daniel -> 12
    [name |-> <<72,111,115,101,97>>, chapters |-> 14],  \* Hosea -> 14
    [name |-> <<74,111,101,108>>, chapters |-> 3],  \* Joel -> 3
    [name |-> <<65,109,111,115>>, chapters |-> 9],  \* Amos -> 9
    [name |-> <<79,98,97,100,105,97,104>>, chapters |-> 1],  \* Obadiah -> 1
    [name |-> <<74,111,110,97,104>>, chapters |-> 4],  \* Jonah -> 4
    [name |-> <<77,105,99,97,104>>, chapters |-> 7],  \* Micah -> 7
    [name |-> <<78,97,104,117,109>>, chapters |-> 3],  \* Nahum -> 3
    [name |-> <<72,97,98,97,107,107,117,107>>, chapters |-> 3],  \* Habakkuk -> 3
    [name |-> <<90,101,112,104,97,110,105,97,104>>, chapters |-> 3],  \* Zephaniah -> 3
    [name |-> <<72,97,103,103,97,105>>, chapters |-> 2],  \* Haggai -> 2
    [name |-> <<90,101,99,104,97,114,105,97,104>>, chapters |-> 14],  \* Zechariah -> 14
    [name |-> <<77,97,108,97,99,104,105>>, chapters |-> 4],  \* Malachi -> 4
    [name |-> <<77,97,116,116,104,101,119>>, chapters |-> 28],  \* Matthew -> 28
    [name |-> <<77,97,114,107>>, chapters |-> 16],  \* Mark -> 16
    [name |-> <<76,117,107,101>>, chapters |-> 24],  \* Luke -> 24
    [name |-> <<74,111,104,110>>, chapters |-> 21],  \* John -> 21
    [name |-> <<65,99,116,115>>, chapters |-> 28],  \* Acts -> 28
    [name |-> <<82,111,109,97,110,115>>, chapters |-> 16],  \* Romans -> 16
    [name |-> <<49,32,67,111,114,105,110,116,104,105,97,110,115>>, chapters |-> 16],  \* 1 Corinthians -> 16
    [name |-> <<50,32,67,111,114,105,110,116,104,105,97,110,115>>, chapters |-> 13],  \* 2 Corinthians -> 13
    [name |-> <<71,97,108,97,116,105,97,110,115>>, chapters |-> 6],  \* Galatians -> 6
    [name |-> <<69,112,104,101,115,105,97,110,115>>, chapters |-> 6],  \* Ephesians -> 6
    [name |-> <<80,104,105,108,105,112,112,105,97,110,115>>, chapters |-> 4],  \* Philippians -> 4
    [name |-> <<67,111,108,111,115,115,105,97,110,115>>, chapters |-> 4],  \* Colossians -> 4
    [name |-> <<49,32,84,104,101,115,115,97,108,111,110,105,97,110,115>>, chapters |-> 5],  \* 1 Thessalonians -> 5
    [name |-> <<50,32,84,104,101,115,115,97,108,111,110,105,97,110,115>>, chapters |-> 3],  \* 2 Thessalonians -> 3
    [name |-> <<49,32,84,105,109,111,116,104,121>>, chapters |-> 6],  \* 1 Timothy -> 6
    [name |-> <<50,32,84,105,109,111,116,104,121>>, chapters |-> 4],  \* 2 Timothy -> 4
    [name |-> <<84,105,116,117,115>>, chapters |-> 3],  \* Titus -> 3
    [name |-> <<80,104,105,108,101,109,111,110>>, chapters |-> 1],  \* Philemon -> 1
    [name |-> <<72,101,98,114,101,119,115>>, chapters |-> 13],  \* Hebrews -> 13
    [name |-> <<74,97,109,101,115>>, chapters |-> 5],  \* James -> 5
    [name |-> <<49,32,80,101,116,101,114>>, chapters |-> 5],  \* 1 Peter -> 5
    [name |-> <<50,32,80,101,116,101,114>>, chapters |-> 3],  \* 2 Peter -> 3
    [name |-> <<49,32,74,111,104,110>>, chapters |-> 5],  \* 1 John -> 5
    [name |-> <<50,32,74,111,104,110>>, chapters |-> 1],  \* 2 John -> 1
    [name |-> <<51,32,74,111,104,110>>, chapters |-> 1],  \* 3 John -> 1
    [name |-> <<74,117,100,101>>, chapters |-> 1],  \* Jude -> 1
    [name |-> <<82,101,118,101,108,97,116,105,111,110>>, chapters |-> 22]  \* Revelation -> 22
  >>

\* bookNameToAbbreviation: canonical name -> common English abbreviation.
bookNameToAbbreviation ==
  <<
    [name |-> <<71,101,110,101,115,105,115>>, abbr |-> <<71,101,110>>],  \* Genesis -> Gen
    [name |-> <<69,120,111,100,117,115>>, abbr |-> <<69,120,111,100>>],  \* Exodus -> Exod
    [name |-> <<76,101,118,105,116,105,99,117,115>>, abbr |-> <<76,101,118>>],  \* Leviticus -> Lev
    [name |-> <<78,117,109,98,101,114,115>>, abbr |-> <<78,117,109>>],  \* Numbers -> Num
    [name |-> <<68,101,117,116,101,114,111,110,111,109,121>>, abbr |-> <<68,101,117,116>>],  \* Deuteronomy -> Deut
    [name |-> <<74,111,115,104,117,97>>, abbr |-> <<74,111,115,104>>],  \* Joshua -> Josh
    [name |-> <<74,117,100,103,101,115>>, abbr |-> <<74,117,100,103>>],  \* Judges -> Judg
    [name |-> <<82,117,116,104>>, abbr |-> <<82,117,116,104>>],  \* Ruth -> Ruth
    [name |-> <<49,32,83,97,109,117,101,108>>, abbr |-> <<49,32,83,97,109>>],  \* 1 Samuel -> 1 Sam
    [name |-> <<50,32,83,97,109,117,101,108>>, abbr |-> <<50,32,83,97,109>>],  \* 2 Samuel -> 2 Sam
    [name |-> <<49,32,75,105,110,103,115>>, abbr |-> <<49,32,75,103,115>>],  \* 1 Kings -> 1 Kgs
    [name |-> <<50,32,75,105,110,103,115>>, abbr |-> <<50,32,75,103,115>>],  \* 2 Kings -> 2 Kgs
    [name |-> <<49,32,67,104,114,111,110,105,99,108,101,115>>, abbr |-> <<49,32,67,104,114>>],  \* 1 Chronicles -> 1 Chr
    [name |-> <<50,32,67,104,114,111,110,105,99,108,101,115>>, abbr |-> <<50,32,67,104,114>>],  \* 2 Chronicles -> 2 Chr
    [name |-> <<69,122,114,97>>, abbr |-> <<69,122,114,97>>],  \* Ezra -> Ezra
    [name |-> <<78,101,104,101,109,105,97,104>>, abbr |-> <<78,101,104>>],  \* Nehemiah -> Neh
    [name |-> <<69,115,116,104,101,114>>, abbr |-> <<69,115,116,104>>],  \* Esther -> Esth
    [name |-> <<74,111,98>>, abbr |-> <<74,111,98>>],  \* Job -> Job
    [name |-> <<80,115,97,108,109,115>>, abbr |-> <<80,115>>],  \* Psalms -> Ps
    [name |-> <<80,114,111,118,101,114,98,115>>, abbr |-> <<80,114,111,118>>],  \* Proverbs -> Prov
    [name |-> <<69,99,99,108,101,115,105,97,115,116,101,115>>, abbr |-> <<69,99,99,108>>],  \* Ecclesiastes -> Eccl
    [name |-> <<83,111,110,103,32,111,102,32,83,111,108,111,109,111,110>>, abbr |-> <<83,111,110,103>>],  \* Song of Solomon -> Song
    [name |-> <<73,115,97,105,97,104>>, abbr |-> <<73,115,97>>],  \* Isaiah -> Isa
    [name |-> <<74,101,114,101,109,105,97,104>>, abbr |-> <<74,101,114>>],  \* Jeremiah -> Jer
    [name |-> <<76,97,109,101,110,116,97,116,105,111,110,115>>, abbr |-> <<76,97,109>>],  \* Lamentations -> Lam
    [name |-> <<69,122,101,107,105,101,108>>, abbr |-> <<69,122,101,107>>],  \* Ezekiel -> Ezek
    [name |-> <<68,97,110,105,101,108>>, abbr |-> <<68,97,110>>],  \* Daniel -> Dan
    [name |-> <<72,111,115,101,97>>, abbr |-> <<72,111,115>>],  \* Hosea -> Hos
    [name |-> <<74,111,101,108>>, abbr |-> <<74,111,101,108>>],  \* Joel -> Joel
    [name |-> <<65,109,111,115>>, abbr |-> <<65,109,111,115>>],  \* Amos -> Amos
    [name |-> <<79,98,97,100,105,97,104>>, abbr |-> <<79,98,97,100>>],  \* Obadiah -> Obad
    [name |-> <<74,111,110,97,104>>, abbr |-> <<74,111,110,97,104>>],  \* Jonah -> Jonah
    [name |-> <<77,105,99,97,104>>, abbr |-> <<77,105,99>>],  \* Micah -> Mic
    [name |-> <<78,97,104,117,109>>, abbr |-> <<78,97,104>>],  \* Nahum -> Nah
    [name |-> <<72,97,98,97,107,107,117,107>>, abbr |-> <<72,97,98>>],  \* Habakkuk -> Hab
    [name |-> <<90,101,112,104,97,110,105,97,104>>, abbr |-> <<90,101,112,104>>],  \* Zephaniah -> Zeph
    [name |-> <<72,97,103,103,97,105>>, abbr |-> <<72,97,103>>],  \* Haggai -> Hag
    [name |-> <<90,101,99,104,97,114,105,97,104>>, abbr |-> <<90,101,99,104>>],  \* Zechariah -> Zech
    [name |-> <<77,97,108,97,99,104,105>>, abbr |-> <<77,97,108>>],  \* Malachi -> Mal
    [name |-> <<77,97,116,116,104,101,119>>, abbr |-> <<77,97,116,116>>],  \* Matthew -> Matt
    [name |-> <<77,97,114,107>>, abbr |-> <<77,97,114,107>>],  \* Mark -> Mark
    [name |-> <<76,117,107,101>>, abbr |-> <<76,117,107,101>>],  \* Luke -> Luke
    [name |-> <<74,111,104,110>>, abbr |-> <<74,111,104,110>>],  \* John -> John
    [name |-> <<65,99,116,115>>, abbr |-> <<65,99,116,115>>],  \* Acts -> Acts
    [name |-> <<82,111,109,97,110,115>>, abbr |-> <<82,111,109>>],  \* Romans -> Rom
    [name |-> <<49,32,67,111,114,105,110,116,104,105,97,110,115>>, abbr |-> <<49,32,67,111,114>>],  \* 1 Corinthians -> 1 Cor
    [name |-> <<50,32,67,111,114,105,110,116,104,105,97,110,115>>, abbr |-> <<50,32,67,111,114>>],  \* 2 Corinthians -> 2 Cor
    [name |-> <<71,97,108,97,116,105,97,110,115>>, abbr |-> <<71,97,108>>],  \* Galatians -> Gal
    [name |-> <<69,112,104,101,115,105,97,110,115>>, abbr |-> <<69,112,104>>],  \* Ephesians -> Eph
    [name |-> <<80,104,105,108,105,112,112,105,97,110,115>>, abbr |-> <<80,104,105,108>>],  \* Philippians -> Phil
    [name |-> <<67,111,108,111,115,115,105,97,110,115>>, abbr |-> <<67,111,108>>],  \* Colossians -> Col
    [name |-> <<49,32,84,104,101,115,115,97,108,111,110,105,97,110,115>>, abbr |-> <<49,32,84,104,101,115,115>>],  \* 1 Thessalonians -> 1 Thess
    [name |-> <<50,32,84,104,101,115,115,97,108,111,110,105,97,110,115>>, abbr |-> <<50,32,84,104,101,115,115>>],  \* 2 Thessalonians -> 2 Thess
    [name |-> <<49,32,84,105,109,111,116,104,121>>, abbr |-> <<49,32,84,105,109>>],  \* 1 Timothy -> 1 Tim
    [name |-> <<50,32,84,105,109,111,116,104,121>>, abbr |-> <<50,32,84,105,109>>],  \* 2 Timothy -> 2 Tim
    [name |-> <<84,105,116,117,115>>, abbr |-> <<84,105,116,117,115>>],  \* Titus -> Titus
    [name |-> <<80,104,105,108,101,109,111,110>>, abbr |-> <<80,104,108,109>>],  \* Philemon -> Phlm
    [name |-> <<72,101,98,114,101,119,115>>, abbr |-> <<72,101,98>>],  \* Hebrews -> Heb
    [name |-> <<74,97,109,101,115>>, abbr |-> <<74,97,115>>],  \* James -> Jas
    [name |-> <<49,32,80,101,116,101,114>>, abbr |-> <<49,32,80,101,116>>],  \* 1 Peter -> 1 Pet
    [name |-> <<50,32,80,101,116,101,114>>, abbr |-> <<50,32,80,101,116>>],  \* 2 Peter -> 2 Pet
    [name |-> <<49,32,74,111,104,110>>, abbr |-> <<49,32,74,111,104,110>>],  \* 1 John -> 1 John
    [name |-> <<50,32,74,111,104,110>>, abbr |-> <<50,32,74,111,104,110>>],  \* 2 John -> 2 John
    [name |-> <<51,32,74,111,104,110>>, abbr |-> <<51,32,74,111,104,110>>],  \* 3 John -> 3 John
    [name |-> <<74,117,100,101>>, abbr |-> <<74,117,100,101>>],  \* Jude -> Jude
    [name |-> <<82,101,118,101,108,97,116,105,111,110>>, abbr |-> <<82,101,118>>]  \* Revelation -> Rev
  >>

\* data/teluguBookNames: canonical name -> official Telugu name.
TELUGU_BOOK_NAMES ==
  <<
    [eng |-> <<71,101,110,101,115,105,115>>, tel |-> <<3078,3110,3135,3093,3134,3074,3105,3118,3137>>],  \* Genesis -> <Telugu>
    [eng |-> <<69,120,111,100,117,115>>, tel |-> <<3112,3135,3120,3149,3095,3118,3093,3134,3074,3105,3118,3137>>],  \* Exodus -> <Telugu>
    [eng |-> <<76,101,118,105,116,105,99,117,115>>, tel |-> <<3122,3143,3125,3136,3119,3093,3134,3074,3105,3118,3137>>],  \* Leviticus -> <Telugu>
    [eng |-> <<78,117,109,98,101,114,115>>, tel |-> <<3128,3074,3094,3149,3119,3134,3093,3134,3074,3105,3118,3137>>],  \* Numbers -> <Telugu>
    [eng |-> <<68,101,117,116,101,114,111,110,111,109,121>>, tel |-> <<3110,3149,3125,3135,3108,3136,3119,3147,3114,3110,3143,3126,3093,3134,3074,3105,3118,3137>>],  \* Deuteronomy -> <Telugu>
    [eng |-> <<74,111,115,104,117,97>>, tel |-> <<3119,3142,3129,3147,3127,3137,3125>>],  \* Joshua -> <Telugu>
    [eng |-> <<74,117,100,103,101,115>>, tel |-> <<3112,3149,3119,3134,3119,3134,3111,3135,3114,3108,3137,3122,3137>>],  \* Judges -> <Telugu>
    [eng |-> <<82,117,116,104>>, tel |-> <<3120,3138,3108,3137>>],  \* Ruth -> <Telugu>
    [eng |-> <<49,32,83,97,109,117,101,108>>, tel |-> <<49,32,3128,3118,3138,3119,3143,3122,3137>>],  \* 1 Samuel -> 1 <Telugu>
    [eng |-> <<50,32,83,97,109,117,101,108>>, tel |-> <<50,32,3128,3118,3138,3119,3143,3122,3137>>],  \* 2 Samuel -> 2 <Telugu>
    [eng |-> <<49,32,75,105,110,103,115>>, tel |-> <<49,32,3120,3134,3100,3137,3122,3137>>],  \* 1 Kings -> 1 <Telugu>
    [eng |-> <<50,32,75,105,110,103,115>>, tel |-> <<50,32,3120,3134,3100,3137,3122,3137>>],  \* 2 Kings -> 2 <Telugu>
    [eng |-> <<49,32,67,104,114,111,110,105,99,108,101,115>>, tel |-> <<49,32,3110,3135,3112,3125,3139,3108,3149,3108,3134,3074,3108,3118,3137,3122,3137>>],  \* 1 Chronicles -> 1 <Telugu>
    [eng |-> <<50,32,67,104,114,111,110,105,99,108,101,115>>, tel |-> <<50,32,3110,3135,3112,3125,3139,3108,3149,3108,3134,3074,3108,3118,3137,3122,3137>>],  \* 2 Chronicles -> 2 <Telugu>
    [eng |-> <<69,122,114,97>>, tel |-> <<3086,3100,3149,3120,3134>>],  \* Ezra -> <Telugu>
    [eng |-> <<78,101,104,101,109,105,97,104>>, tel |-> <<3112,3142,3129,3142,3118,3149,3119,3134>>],  \* Nehemiah -> <Telugu>
    [eng |-> <<69,115,116,104,101,114>>, tel |-> <<3086,3128,3149,3108,3143,3120,3137>>],  \* Esther -> <Telugu>
    [eng |-> <<74,111,98>>, tel |-> <<3119,3147,3116,3137>>],  \* Job -> <Telugu>
    [eng |-> <<80,115,97,108,109,115>>, tel |-> <<3093,3136,3120,3149,3108,3112,3122,32,3095,3149,3120,3074,3109,3118,3137>>],  \* Psalms -> <Telugu> <Telugu>
    [eng |-> <<80,114,111,118,101,114,98,115>>, tel |-> <<3128,3134,3118,3142,3108,3122,3137>>],  \* Proverbs -> <Telugu>
    [eng |-> <<69,99,99,108,101,115,105,97,115,116,101,115>>, tel |-> <<3114,3149,3120,3128,3074,3095,3135>>],  \* Ecclesiastes -> <Telugu>
    [eng |-> <<83,111,110,103,32,111,102,32,83,111,108,111,109,111,110>>, tel |-> <<3114,3120,3118,3095,3136,3108,3118,3137>>],  \* Song of Solomon -> <Telugu>
    [eng |-> <<73,115,97,105,97,104>>, tel |-> <<3119,3142,3127,3119,3134>>],  \* Isaiah -> <Telugu>
    [eng |-> <<74,101,114,101,109,105,97,104>>, tel |-> <<3119,3135,3120,3149,3118,3135,3119,3134>>],  \* Jeremiah -> <Telugu>
    [eng |-> <<76,97,109,101,110,116,97,116,105,111,110,115>>, tel |-> <<3125,3135,3122,3134,3114,3125,3134,3093,3149,3119,3118,3137,3122,3137>>],  \* Lamentations -> <Telugu>
    [eng |-> <<69,122,101,107,105,101,108>>, tel |-> <<3119,3142,3129,3142,3100,3149,3093,3143,3122,3137>>],  \* Ezekiel -> <Telugu>
    [eng |-> <<68,97,110,105,101,108>>, tel |-> <<3110,3134,3112,3135,3119,3143,3122,3137>>],  \* Daniel -> <Telugu>
    [eng |-> <<72,111,115,101,97>>, tel |-> <<3129,3147,3127,3143,3119,3134>>],  \* Hosea -> <Telugu>
    [eng |-> <<74,111,101,108>>, tel |-> <<3119,3147,3125,3143,3122,3137>>],  \* Joel -> <Telugu>
    [eng |-> <<65,109,111,115>>, tel |-> <<3078,3118,3147,3128,3137>>],  \* Amos -> <Telugu>
    [eng |-> <<79,98,97,100,105,97,104>>, tel |-> <<3091,3116,3110,3149,3119,3134>>],  \* Obadiah -> <Telugu>
    [eng |-> <<74,111,110,97,104>>, tel |-> <<3119,3147,3112,3134>>],  \* Jonah -> <Telugu>
    [eng |-> <<77,105,99,97,104>>, tel |-> <<3118,3136,3093,3134>>],  \* Micah -> <Telugu>
    [eng |-> <<78,97,104,117,109>>, tel |-> <<3112,3134,3129,3138,3118,3137>>],  \* Nahum -> <Telugu>
    [eng |-> <<72,97,98,97,107,107,117,107>>, tel |-> <<3129,3116,3093,3149,3093,3138,3093,3137>>],  \* Habakkuk -> <Telugu>
    [eng |-> <<90,101,112,104,97,110,105,97,104>>, tel |-> <<3128,3142,3115,3112,3149,3119,3134>>],  \* Zephaniah -> <Telugu>
    [eng |-> <<72,97,103,103,97,105>>, tel |-> <<3129,3095,3149,3095,3119,3135>>],  \* Haggai -> <Telugu>
    [eng |-> <<90,101,99,104,97,114,105,97,104>>, tel |-> <<3100,3142,3093,3120,3149,3119,3134>>],  \* Zechariah -> <Telugu>
    [eng |-> <<77,97,108,97,99,104,105>>, tel |-> <<3118,3122,3134,3093,3136>>],  \* Malachi -> <Telugu>
    [eng |-> <<77,97,116,116,104,101,119>>, tel |-> <<3118,3108,3149,3108,3119,3135>>],  \* Matthew -> <Telugu>
    [eng |-> <<77,97,114,107>>, tel |-> <<3118,3134,3120,3149,3093,3137>>],  \* Mark -> <Telugu>
    [eng |-> <<76,117,107,101>>, tel |-> <<3122,3138,3093,3134>>],  \* Luke -> <Telugu>
    [eng |-> <<74,111,104,110>>, tel |-> <<3119,3147,3129,3134,3112,3137>>],  \* John -> <Telugu>
    [eng |-> <<65,99,116,115>>, tel |-> <<3077,3114,3146,3128,3149,3108,3122,3137,3122,32,3093,3134,3120,3149,3119,3118,3137,3122,3137>>],  \* Acts -> <Telugu> <Telugu>
    [eng |-> <<82,111,109,97,110,115>>, tel |-> <<3120,3147,3118,3136,3119,3137,3122,3093,3137>>],  \* Romans -> <Telugu>
    [eng |-> <<49,32,67,111,114,105,110,116,104,105,97,110,115>>, tel |-> <<49,32,3093,3146,3120,3135,3074,3109,3136,3119,3137,3122,3093,3137>>],  \* 1 Corinthians -> 1 <Telugu>
    [eng |-> <<50,32,67,111,114,105,110,116,104,105,97,110,115>>, tel |-> <<50,32,3093,3146,3120,3135,3074,3109,3136,3119,3137,3122,3093,3137>>],  \* 2 Corinthians -> 2 <Telugu>
    [eng |-> <<71,97,108,97,116,105,97,110,115>>, tel |-> <<3095,3122,3108,3136,3119,3137,3122,3093,3137>>],  \* Galatians -> <Telugu>
    [eng |-> <<69,112,104,101,115,105,97,110,115>>, tel |-> <<3086,3115,3142,3128,3136,3119,3137,3122,3093,3137>>],  \* Ephesians -> <Telugu>
    [eng |-> <<80,104,105,108,105,112,112,105,97,110,115>>, tel |-> <<3115,3135,3122,3135,3114,3149,3114,3136,3119,3137,3122,3093,3137>>],  \* Philippians -> <Telugu>
    [eng |-> <<67,111,108,111,115,115,105,97,110,115>>, tel |-> <<3093,3146,3122,3128,3149,3128,3119,3137,3122,3093,3137>>],  \* Colossians -> <Telugu>
    [eng |-> <<49,32,84,104,101,115,115,97,108,111,110,105,97,110,115>>, tel |-> <<49,32,3109,3142,3128,3149,3128,3122,3146,3112,3136,3093,3119,3137,3122,3093,3137>>],  \* 1 Thessalonians -> 1 <Telugu>
    [eng |-> <<50,32,84,104,101,115,115,97,108,111,110,105,97,110,115>>, tel |-> <<50,32,3109,3142,3128,3149,3128,3122,3146,3112,3136,3093,3119,3137,3122,3093,3137>>],  \* 2 Thessalonians -> 2 <Telugu>
    [eng |-> <<49,32,84,105,109,111,116,104,121>>, tel |-> <<49,32,3108,3135,3118,3147,3108,3135,3093,3135>>],  \* 1 Timothy -> 1 <Telugu>
    [eng |-> <<50,32,84,105,109,111,116,104,121>>, tel |-> <<50,32,3108,3135,3118,3147,3108,3135,3093,3135>>],  \* 2 Timothy -> 2 <Telugu>
    [eng |-> <<84,105,116,117,115>>, tel |-> <<3108,3136,3108,3137,3093,3137>>],  \* Titus -> <Telugu>
    [eng |-> <<80,104,105,108,101,109,111,110>>, tel |-> <<3115,3135,3122,3143,3118,3147,3112,3137,3093,3137>>],  \* Philemon -> <Telugu>
    [eng |-> <<72,101,98,114,101,119,115>>, tel |-> <<3129,3142,3116,3149,3120,3136,3119,3137,3122,3093,3137>>],  \* Hebrews -> <Telugu>
    [eng |-> <<74,97,109,101,115>>, tel |-> <<3119,3134,3093,3147,3116,3137>>],  \* James -> <Telugu>
    [eng |-> <<49,32,80,101,116,101,114>>, tel |-> <<49,32,3114,3143,3108,3137,3120,3137>>],  \* 1 Peter -> 1 <Telugu>
    [eng |-> <<50,32,80,101,116,101,114>>, tel |-> <<50,32,3114,3143,3108,3137,3120,3137>>],  \* 2 Peter -> 2 <Telugu>
    [eng |-> <<49,32,74,111,104,110>>, tel |-> <<49,32,3119,3147,3129,3134,3112,3137>>],  \* 1 John -> 1 <Telugu>
    [eng |-> <<50,32,74,111,104,110>>, tel |-> <<50,32,3119,3147,3129,3134,3112,3137>>],  \* 2 John -> 2 <Telugu>
    [eng |-> <<51,32,74,111,104,110>>, tel |-> <<51,32,3119,3147,3129,3134,3112,3137>>],  \* 3 John -> 3 <Telugu>
    [eng |-> <<74,117,100,101>>, tel |-> <<3119,3138,3110,3134>>],  \* Jude -> <Telugu>
    [eng |-> <<82,101,118,101,108,97,116,105,111,110>>, tel |-> <<3114,3149,3120,3093,3103,3112,32,3095,3149,3120,3074,3109,3118,3137>>]  \* Revelation -> <Telugu> <Telugu>
  >>

\* TELUGU_SYNONYMS: Telugu short forms, colloquial forms, romanized stubs and
\* English abbreviations -> canonical name, in source order.
TELUGU_SYNONYMS ==
  <<
    [key |-> <<3078,3110,3135,3093,3134,3074,3105,3118,3137>>, value |-> <<71,101,110,101,115,105,115>>],  \* <Telugu> -> Genesis
    [key |-> <<3078,3110,3135,3093,3134,3074,3105,3074>>, value |-> <<71,101,110,101,115,105,115>>],  \* <Telugu> -> Genesis
    [key |-> <<3078,3110,3135>>, value |-> <<71,101,110,101,115,105,115>>],  \* <Telugu> -> Genesis
    [key |-> <<3078,3110,3135,3093,3134,3074,3105>>, value |-> <<71,101,110,101,115,105,115>>],  \* <Telugu> -> Genesis
    [key |-> <<3112,3135,3120,3149,3095,3118,3093,3134,3074,3105,3118,3137>>, value |-> <<69,120,111,100,117,115>>],  \* <Telugu> -> Exodus
    [key |-> <<3112,3135,3120,3149,3095,3118,3093,3134,3074,3105,3074>>, value |-> <<69,120,111,100,117,115>>],  \* <Telugu> -> Exodus
    [key |-> <<3112,3135,3120,3149,3095,3118,3118,3137>>, value |-> <<69,120,111,100,117,115>>],  \* <Telugu> -> Exodus
    [key |-> <<3112,3135,3120,3149,3095,3118,3074>>, value |-> <<69,120,111,100,117,115>>],  \* <Telugu> -> Exodus
    [key |-> <<3122,3143,3125,3136,3119,3093,3134,3074,3105,3118,3137>>, value |-> <<76,101,118,105,116,105,99,117,115>>],  \* <Telugu> -> Leviticus
    [key |-> <<3122,3143,3125,3136,3119,3093,3134,3074,3105,3074>>, value |-> <<76,101,118,105,116,105,99,117,115>>],  \* <Telugu> -> Leviticus
    [key |-> <<3128,3074,3094,3149,3119,3134,3093,3134,3074,3105,3118,3137>>, value |-> <<78,117,109,98,101,114,115>>],  \* <Telugu> -> Numbers
    [key |-> <<3128,3074,3094,3149,3119,3134,3093,3134,3074,3105,3074>>, value |-> <<78,117,109,98,101,114,115>>],  \* <Telugu> -> Numbers
    [key |-> <<3128,3074,3094,3149,3119,3122,3137>>, value |-> <<78,117,109,98,101,114,115>>],  \* <Telugu> -> Numbers
    [key |-> <<3110,3149,3125,3135,3108,3136,3119,3147,3114,3110,3143,3126,3093,3134,3074,3105,3118,3137>>, value |-> <<68,101,117,116,101,114,111,110,111,109,121>>],  \* <Telugu> -> Deuteronomy
    [key |-> <<3110,3149,3125,3135,3108,3136,3119,3147,3114,3110,3143,3126,3118,3137>>, value |-> <<68,101,117,116,101,114,111,110,111,109,121>>],  \* <Telugu> -> Deuteronomy
    [key |-> <<3119,3142,3129,3147,3127,3137,3125>>, value |-> <<74,111,115,104,117,97>>],  \* <Telugu> -> Joshua
    [key |-> <<3112,3149,3119,3134,3119,3134,3111,3135,3114,3108,3137,3122,3137>>, value |-> <<74,117,100,103,101,115>>],  \* <Telugu> -> Judges
    [key |-> <<3112,3149,3119,3134,3119,3134,3111,3135,3114,3108,3135>>, value |-> <<74,117,100,103,101,115>>],  \* <Telugu> -> Judges
    [key |-> <<3120,3138,3108,3137>>, value |-> <<82,117,116,104>>],  \* <Telugu> -> Ruth
    [key |-> <<49,32,3128,3118,3138,3119,3143,3122,3137>>, value |-> <<49,32,83,97,109,117,101,108>>],  \* 1 <Telugu> -> 1 Samuel
    [key |-> <<50,32,3128,3118,3138,3119,3143,3122,3137>>, value |-> <<50,32,83,97,109,117,101,108>>],  \* 2 <Telugu> -> 2 Samuel
    [key |-> <<49,32,3120,3134,3100,3137,3122,3137>>, value |-> <<49,32,75,105,110,103,115>>],  \* 1 <Telugu> -> 1 Kings
    [key |-> <<50,32,3120,3134,3100,3137,3122,3137>>, value |-> <<50,32,75,105,110,103,115>>],  \* 2 <Telugu> -> 2 Kings
    [key |-> <<49,32,3110,3135,3112,3125,3139,3108,3149,3108,3134,3074,3108,3118,3137,3122,3137>>, value |-> <<49,32,67,104,114,111,110,105,99,108,101,115>>],  \* 1 <Telugu> -> 1 Chronicles
    [key |-> <<50,32,3110,3135,3112,3125,3139,3108,3149,3108,3134,3074,3108,3118,3137,3122,3137>>, value |-> <<50,32,67,104,114,111,110,105,99,108,101,115>>],  \* 2 <Telugu> -> 2 Chronicles
    [key |-> <<3086,3100,3149,3120,3134>>, value |-> <<69,122,114,97>>],  \* <Telugu> -> Ezra
    [key |-> <<3112,3142,3129,3142,3118,3149,3119,3134>>, value |-> <<78,101,104,101,109,105,97,104>>],  \* <Telugu> -> Nehemiah
    [key |-> <<3086,3128,3149,3108,3143,3120,3137>>, value |-> <<69,115,116,104,101,114>>],  \* <Telugu> -> Esther
    [key |-> <<3119,3147,3116,3137>>, value |-> <<74,111,98>>],  \* <Telugu> -> Job
    [key |-> <<3119,3147,3116,3137,32,3095,3149,3120,3074,3109,3074>>, value |-> <<74,111,98>>],  \* <Telugu> <Telugu> -> Job
    [key |-> <<3093,3136,3120,3149,3108,3112,3122,32,3095,3149,3120,3074,3109,3118,3137>>, value |-> <<80,115,97,108,109,115>>],  \* <Telugu> <Telugu> -> Psalms
    [key |-> <<3093,3136,3120,3149,3108,3112,3122,32,3095,3149,3120,3074,3109,3074>>, value |-> <<80,115,97,108,109,115>>],  \* <Telugu> <Telugu> -> Psalms
    [key |-> <<3093,3136,3120,3149,3108,3112,3122,3137>>, value |-> <<80,115,97,108,109,115>>],  \* <Telugu> -> Psalms
    [key |-> <<3093,3136,3120,3149,3108,3112>>, value |-> <<80,115,97,108,109,115>>],  \* <Telugu> -> Psalms
    [key |-> <<3093,3136,3120,3149,3108,3112,3122>>, value |-> <<80,115,97,108,109,115>>],  \* <Telugu> -> Psalms
    [key |-> <<3128,3134,3118,3142,3108,3122,3137>>, value |-> <<80,114,111,118,101,114,98,115>>],  \* <Telugu> -> Proverbs
    [key |-> <<3128,3134,3118,3142,3108>>, value |-> <<80,114,111,118,101,114,98,115>>],  \* <Telugu> -> Proverbs
    [key |-> <<3114,3149,3120,3128,3074,3095,3135>>, value |-> <<69,99,99,108,101,115,105,97,115,116,101,115>>],  \* <Telugu> -> Ecclesiastes
    [key |-> <<3093,3146,3129,3143,3122,3142,3108,3149>>, value |-> <<69,99,99,108,101,115,105,97,115,116,101,115>>],  \* <Telugu> -> Ecclesiastes
    [key |-> <<3114,3120,3118,3095,3136,3108,3118,3137>>, value |-> <<83,111,110,103,32,111,102,32,83,111,108,111,109,111,110>>],  \* <Telugu> -> Song of Solomon
    [key |-> <<3114,3120,3118,3095,3136,3108,3074>>, value |-> <<83,111,110,103,32,111,102,32,83,111,108,111,109,111,110>>],  \* <Telugu> -> Song of Solomon
    [key |-> <<3114,3120,3118,3095,3136,3108>>, value |-> <<83,111,110,103,32,111,102,32,83,111,108,111,109,111,110>>],  \* <Telugu> -> Song of Solomon
    [key |-> <<3119,3142,3127,3119,3134>>, value |-> <<73,115,97,105,97,104>>],  \* <Telugu> -> Isaiah
    [key |-> <<3119,3135,3120,3149,3118,3135,3119,3134>>, value |-> <<74,101,114,101,109,105,97,104>>],  \* <Telugu> -> Jeremiah
    [key |-> <<3119,3135,3120,3149,3118,3136,3119,3134>>, value |-> <<74,101,114,101,109,105,97,104>>],  \* <Telugu> -> Jeremiah
    [key |-> <<3125,3135,3122,3134,3114,3125,3134,3093,3149,3119,3118,3137,3122,3137>>, value |-> <<76,97,109,101,110,116,97,116,105,111,110,115>>],  \* <Telugu> -> Lamentations
    [key |-> <<3125,3135,3122,3134,3114,3125,3134,3093,3149,3119,3134,3122,3137>>, value |-> <<76,97,109,101,110,116,97,116,105,111,110,115>>],  \* <Telugu> -> Lamentations
    [key |-> <<3119,3142,3129,3142,3100,3149,3093,3143,3122,3137>>, value |-> <<69,122,101,107,105,101,108>>],  \* <Telugu> -> Ezekiel
    [key |-> <<3110,3134,3112,3135,3119,3143,3122,3137>>, value |-> <<68,97,110,105,101,108>>],  \* <Telugu> -> Daniel
    [key |-> <<3129,3147,3127,3143,3119,3134>>, value |-> <<72,111,115,101,97>>],  \* <Telugu> -> Hosea
    [key |-> <<3119,3147,3125,3143,3122,3137>>, value |-> <<74,111,101,108>>],  \* <Telugu> -> Joel
    [key |-> <<3078,3118,3147,3128,3137>>, value |-> <<65,109,111,115>>],  \* <Telugu> -> Amos
    [key |-> <<3091,3116,3110,3149,3119,3134>>, value |-> <<79,98,97,100,105,97,104>>],  \* <Telugu> -> Obadiah
    [key |-> <<3119,3147,3112,3134>>, value |-> <<74,111,110,97,104>>],  \* <Telugu> -> Jonah
    [key |-> <<3118,3136,3093,3134>>, value |-> <<77,105,99,97,104>>],  \* <Telugu> -> Micah
    [key |-> <<3112,3134,3129,3138,3118,3137>>, value |-> <<78,97,104,117,109>>],  \* <Telugu> -> Nahum
    [key |-> <<3129,3116,3093,3149,3093,3138,3093,3137>>, value |-> <<72,97,98,97,107,107,117,107>>],  \* <Telugu> -> Habakkuk
    [key |-> <<3128,3142,3115,3112,3149,3119,3134>>, value |-> <<90,101,112,104,97,110,105,97,104>>],  \* <Telugu> -> Zephaniah
    [key |-> <<3129,3095,3149,3095,3119,3135>>, value |-> <<72,97,103,103,97,105>>],  \* <Telugu> -> Haggai
    [key |-> <<3100,3142,3093,3120,3149,3119,3134>>, value |-> <<90,101,99,104,97,114,105,97,104>>],  \* <Telugu> -> Zechariah
    [key |-> <<3118,3122,3134,3093,3136>>, value |-> <<77,97,108,97,99,104,105>>],  \* <Telugu> -> Malachi
    [key |-> <<3118,3108,3149,3108,3119,3135>>, value |-> <<77,97,116,116,104,101,119>>],  \* <Telugu> -> Matthew
    [key |-> <<3118,3134,3120,3149,3093,3137>>, value |-> <<77,97,114,107>>],  \* <Telugu> -> Mark
    [key |-> <<3122,3138,3093,3134>>, value |-> <<76,117,107,101>>],  \* <Telugu> -> Luke
    [key |-> <<3119,3147,3129,3134,3112,3137>>, value |-> <<74,111,104,110>>],  \* <Telugu> -> John
    [key |-> <<3119,3147,3129,3134,3112,3137,32,3128,3137,3125,3134,3120,3149,3108>>, value |-> <<74,111,104,110>>],  \* <Telugu> <Telugu> -> John
    [key |-> <<3119,3147,3129,3134,3112,3137,3108,3147>>, value |-> <<74,111,104,110>>],  \* <Telugu> -> John
    [key |-> <<3077,3114,3146,3128,3149,3108,3122,3137,3122,32,3093,3134,3120,3149,3119,3118,3137,3122,3137>>, value |-> <<65,99,116,115>>],  \* <Telugu> <Telugu> -> Acts
    [key |-> <<3077,3114,3146,3128,3149,3108,3122,3137,3122>>, value |-> <<65,99,116,115>>],  \* <Telugu> -> Acts
    [key |-> <<3114,3149,3120,3143,3120,3135,3108,3137,3122,32,3093,3134,3120,3149,3119,3118,3137,3122,3137>>, value |-> <<65,99,116,115>>],  \* <Telugu> <Telugu> -> Acts
    [key |-> <<3120,3147,3118,3136,3119,3137,3122,3093,3137>>, value |-> <<82,111,109,97,110,115>>],  \* <Telugu> -> Romans
    [key |-> <<3120,3147,3118,3134>>, value |-> <<82,111,109,97,110,115>>],  \* <Telugu> -> Romans
    [key |-> <<49,32,3093,3146,3120,3135,3074,3109,3136,3119,3137,3122,3093,3137>>, value |-> <<49,32,67,111,114,105,110,116,104,105,97,110,115>>],  \* 1 <Telugu> -> 1 Corinthians
    [key |-> <<50,32,3093,3146,3120,3135,3074,3109,3136,3119,3137,3122,3093,3137>>, value |-> <<50,32,67,111,114,105,110,116,104,105,97,110,115>>],  \* 2 <Telugu> -> 2 Corinthians
    [key |-> <<3095,3122,3108,3136,3119,3137,3122,3093,3137>>, value |-> <<71,97,108,97,116,105,97,110,115>>],  \* <Telugu> -> Galatians
    [key |-> <<3086,3115,3142,3128,3136,3119,3137,3122,3093,3137>>, value |-> <<69,112,104,101,115,105,97,110,115>>],  \* <Telugu> -> Ephesians
    [key |-> <<3115,3135,3122,3135,3114,3149,3114,3136,3119,3137,3122,3093,3137>>, value |-> <<80,104,105,108,105,112,112,105,97,110,115>>],  \* <Telugu> -> Philippians
    [key |-> <<3093,3146,3122,3128,3149,3128,3119,3137,3122,3093,3137>>, value |-> <<67,111,108,111,115,115,105,97,110,115>>],  \* <Telugu> -> Colossians
    [key |-> <<49,32,3109,3142,3128,3149,3128,3122,3146,3112,3136,3093,3119,3137,3122,3093,3137>>, value |-> <<49,32,84,104,101,115,115,97,108,111,110,105,97,110,115>>],  \* 1 <Telugu> -> 1 Thessalonians
    [key |-> <<50,32,3109,3142,3128,3149,3128,3122,3146,3112,3136,3093,3119,3137,3122,3093,3137>>, value |-> <<50,32,84,104,101,115,115,97,108,111,110,105,97,110,115>>],  \* 2 <Telugu> -> 2 Thessalonians
    [key |-> <<49,32,3108,3135,3118,3147,3108,3135,3093,3135>>, value |-> <<49,32,84,105,109,111,116,104,121>>],  \* 1 <Telugu> -> 1 Timothy
    [key |-> <<49,32,3108,3135,3118,3147,3108,3135>>, value |-> <<49,32,84,105,109,111,116,104,121>>],  \* 1 <Telugu> -> 1 Timothy
    [key |-> <<49,32,3108,3135,3118,3147,3108,3135,32,3114,3108,3149,3120,3135,3093>>, value |-> <<49,32,84,105,109,111,116,104,121>>],  \* 1 <Telugu> <Telugu> -> 1 Timothy
    [key |-> <<50,32,3108,3135,3118,3147,3108,3135,3093,3135>>, value |-> <<50,32,84,105,109,111,116,104,121>>],  \* 2 <Telugu> -> 2 Timothy
    [key |-> <<50,32,3108,3135,3118,3147,3108,3135>>, value |-> <<50,32,84,105,109,111,116,104,121>>],  \* 2 <Telugu> -> 2 Timothy
    [key |-> <<50,32,3108,3135,3118,3147,3108,3135,32,3114,3108,3149,3120,3135,3093>>, value |-> <<50,32,84,105,109,111,116,104,121>>],  \* 2 <Telugu> <Telugu> -> 2 Timothy
    [key |-> <<3108,3136,3108,3137,3093,3137>>, value |-> <<84,105,116,117,115>>],  \* <Telugu> -> Titus
    [key |-> <<3108,3136,3108,3137>>, value |-> <<84,105,116,117,115>>],  \* <Telugu> -> Titus
    [key |-> <<3115,3135,3122,3143,3118,3147,3112,3137,3093,3137>>, value |-> <<80,104,105,108,101,109,111,110>>],  \* <Telugu> -> Philemon
    [key |-> <<3115,3135,3122,3143,3118,3147,3112,3137>>, value |-> <<80,104,105,108,101,109,111,110>>],  \* <Telugu> -> Philemon
    [key |-> <<3129,3142,3116,3149,3120,3136,3119,3137,3122,3093,3137>>, value |-> <<72,101,98,114,101,119,115>>],  \* <Telugu> -> Hebrews
    [key |-> <<3129,3142,3116,3149,3120,3136>>, value |-> <<72,101,98,114,101,119,115>>],  \* <Telugu> -> Hebrews
    [key |-> <<3119,3134,3093,3147,3116,3137>>, value |-> <<74,97,109,101,115>>],  \* <Telugu> -> James
    [key |-> <<49,32,3114,3143,3108,3137,3120,3137>>, value |-> <<49,32,80,101,116,101,114>>],  \* 1 <Telugu> -> 1 Peter
    [key |-> <<50,32,3114,3143,3108,3137,3120,3137>>, value |-> <<50,32,80,101,116,101,114>>],  \* 2 <Telugu> -> 2 Peter
    [key |-> <<49,32,3119,3147,3129,3134,3112,3137>>, value |-> <<49,32,74,111,104,110>>],  \* 1 <Telugu> -> 1 John
    [key |-> <<50,32,3119,3147,3129,3134,3112,3137>>, value |-> <<50,32,74,111,104,110>>],  \* 2 <Telugu> -> 2 John
    [key |-> <<51,32,3119,3147,3129,3134,3112,3137>>, value |-> <<51,32,74,111,104,110>>],  \* 3 <Telugu> -> 3 John
    [key |-> <<3119,3138,3110,3134>>, value |-> <<74,117,100,101>>],  \* <Telugu> -> Jude
    [key |-> <<3114,3149,3120,3093,3103,3112,32,3095,3149,3120,3074,3109,3118,3137>>, value |-> <<82,101,118,101,108,97,116,105,111,110>>],  \* <Telugu> <Telugu> -> Revelation
    [key |-> <<3114,3149,3120,3093,3103,3112>>, value |-> <<82,101,118,101,108,97,116,105,111,110>>],  \* <Telugu> -> Revelation
    [key |-> <<103,101,110>>, value |-> <<71,101,110,101,115,105,115>>],  \* gen -> Genesis
    [key |-> <<103,101,110,101,115,105,115>>, value |-> <<71,101,110,101,115,105,115>>],  \* genesis -> Genesis
    [key |-> <<101,120,111,100>>, value |-> <<69,120,111,100,117,115>>],  \* exod -> Exodus
    [key |-> <<112,115>>, value |-> <<80,115,97,108,109,115>>],  \* ps -> Psalms
    [key |-> <<112,115,97,108,109>>, value |-> <<80,115,97,108,109,115>>],  \* psalm -> Psalms
    [key |-> <<112,115,97,108,109,115>>, value |-> <<80,115,97,108,109,115>>],  \* psalms -> Psalms
    [key |-> <<112,114,111,118>>, value |-> <<80,114,111,118,101,114,98,115>>],  \* prov -> Proverbs
    [key |-> <<112,114,111,118,46>>, value |-> <<80,114,111,118,101,114,98,115>>],  \* prov. -> Proverbs
    [key |-> <<115,111,110,103>>, value |-> <<83,111,110,103,32,111,102,32,83,111,108,111,109,111,110>>],  \* song -> Song of Solomon
    [key |-> <<115,111,110,103,32,111,102,32,115,111,108,111,109,111,110>>, value |-> <<83,111,110,103,32,111,102,32,83,111,108,111,109,111,110>>],  \* song of solomon -> Song of Solomon
    [key |-> <<121,111,104,97,110,117>>, value |-> <<74,111,104,110>>],  \* yohanu -> John
    [key |-> <<109,97,116,116,97,105>>, value |-> <<77,97,116,116,104,101,119>>],  \* mattai -> Matthew
    [key |-> <<109,97,116,116,104,101,119>>, value |-> <<77,97,116,116,104,101,119>>],  \* matthew -> Matthew
    [key |-> <<49,32,116,105,109>>, value |-> <<49,32,84,105,109,111,116,104,121>>],  \* 1 tim -> 1 Timothy
    [key |-> <<50,32,116,105,109>>, value |-> <<50,32,84,105,109,111,116,104,121>>],  \* 2 tim -> 2 Timothy
    [key |-> <<49,116,105,109>>, value |-> <<49,32,84,105,109,111,116,104,121>>],  \* 1tim -> 1 Timothy
    [key |-> <<50,116,105,109>>, value |-> <<50,32,84,105,109,111,116,104,121>>],  \* 2tim -> 2 Timothy
    [key |-> <<116,105,109>>, value |-> <<49,32,84,105,109,111,116,104,121>>],  \* tim -> 1 Timothy
    [key |-> <<49,99,111,114>>, value |-> <<49,32,67,111,114,105,110,116,104,105,97,110,115>>],  \* 1cor -> 1 Corinthians
    [key |-> <<50,99,111,114>>, value |-> <<50,32,67,111,114,105,110,116,104,105,97,110,115>>],  \* 2cor -> 2 Corinthians
    [key |-> <<114,111,109>>, value |-> <<82,111,109,97,110,115>>],  \* rom -> Romans
    [key |-> <<114,111,109,115>>, value |-> <<82,111,109,97,110,115>>]  \* roms -> Romans
  >>

\* ENGLISH_ALIASES: a small English alias map.
ENGLISH_ALIASES ==
  <<
    [key |-> <<112,115,97,108,109>>, value |-> <<80,115,97,108,109,115>>],  \* psalm -> Psalms
    [key |-> <<112,115,97,108,109,115>>, value |-> <<80,115,97,108,109,115>>],  \* psalms -> Psalms
    [key |-> <<115,111,110,103>>, value |-> <<83,111,110,103,32,111,102,32,83,111,108,111,109,111,110>>],  \* song -> Song of Solomon
    [key |-> <<115,111,110,103,32,111,102,32,115,111,110,103,115>>, value |-> <<83,111,110,103,32,111,102,32,83,111,108,111,109,111,110>>],  \* song of songs -> Song of Solomon
    [key |-> <<115,111,110,103,115>>, value |-> <<83,111,110,103,32,111,102,32,83,111,108,111,109,111,110>>],  \* songs -> Song of Solomon
    [key |-> <<49,115,97,109>>, value |-> <<49,32,83,97,109,117,101,108>>],  \* 1sam -> 1 Samuel
    [key |-> <<50,115,97,109>>, value |-> <<50,32,83,97,109,117,101,108>>],  \* 2sam -> 2 Samuel
    [key |-> <<49,107,103,115>>, value |-> <<49,32,75,105,110,103,115>>]  \* 1kgs -> 1 Kings
  >>

(***************************************************************************)
(* services/bibleService.ts: tables derived at module load.                *)
(***************************************************************************)
\* BIBLE_META: name and number of chapters of every book, in canon order
BIBLE_META ==
  [i \in 1..Len(BIBLE_META_WITH_VERSE_COUNTS) |->
     [name |-> BIBLE_META_WITH_VERSE_COUNTS[i].name,
      chapters |-> BIBLE_META_WITH_VERSE_COUNTS[i].chapters]]

BookNames == {BIBLE_META[i].name : i \in 1..Len(BIBLE_META)}

\* table[key] of an object literal given as its entries in source order: the
\* last entry of that key (a later assignment overwrites an earlier one), and
\* with no entry what every plain object inherits
ObjectGet(table, key) ==
  TheOne({IF hits = {} THEN ObjectPrototypeGet(key)
          ELSE table[CHOOSE i \in hits : \A j \in hits : i >= j].value :
          hits \in {TheOne({{i \in 1..Len(table) : table[i].key = k} : k \in {key}})}})

\* abbreviationToBookName: for every entry two keys, the abbreviation in lower
\* case without its white space, and the abbreviation in lower case
abbreviationEntries ==
  [k \in 1..(2 * Len(bookNameToAbbreviation)) |->
     LET e == bookNameToAbbreviation[(k + 1) \div 2]
     IN  [key |-> IF k % 2 = 1
                    THEN SelectSeq(toLowerCase(e.abbr), LAMBDA c : ~IsWs(c))
                    ELSE toLowerCase(e.abbr),
          value |-> e.name]]

\* the same table built with key and value the wrong way round
abbreviationToBookNameSwapped(key) ==
  ObjectGet([k \in 1..Len(bookNameToAbbreviation) |->
               [key |-> toLowerCase(bookNameToAbbreviation[k].name),
                value |-> bookNameToAbbreviation[k].abbr]], key)

\* the same table built with one key for every entry, the abbreviation in
\* lower case as it is spelled
abbreviationToBookNameSpelledOnly(key) ==
  ObjectGet([k \in 1..Len(bookNameToAbbreviation) |->
               [key |-> toLowerCase(bookNameToAbbreviation[k].abbr),
                value |-> bookNameToAbbreviation[k].name]], key)

abbreviationToBookName(key) == ObjectGet(abbreviationEntries, key)

\* TELUGU_TO_ENGLISH: TELUGU_BOOK_NAMES reversed
TELUGU_TO_ENGLISH ==
  [i \in 1..Len(TELUGU_BOOK_NAMES) |->
     [key |-> TELUGU_BOOK_NAMES[i].tel, value |-> TELUGU_BOOK_NAMES[i].eng]]

(***************************************************************************)
(* services/bibleService.ts: helpers.                                      *)
(***************************************************************************)
\* Replace Telugu digits with ASCII digits
replaceTeluguDigits(s) ==
  [i \in 1..Len(s) |-> IF IsTeluguDigit(s[i]) THEN s[i] - 3174 + 48 ELSE s[i]]

\* s.replace(/\s+/g, ' '): every run of white space becomes one space
RECURSIVE CollapseWs(_)
CollapseWs(s) ==
  IF s = <<>> THEN <<>>
  ELSE IF IsWs(s[1]) THEN <<32>> \o CollapseWs(SubSeq(s, SkipWs(s, 1), Len(s)))
       ELSE <<s[1]>> \o CollapseWs(Tail(s))

\* Trim and normalize whitespace: zero-width spaces removed, runs collapsed
normalizeWhitespace(s) == trim(CollapseWs(SelectSeq(s, LAMBDA c : c # 8203)))

\* /\s*\d+:\d+(-\d+)?\s*$/ matched from position i to the end of s
CvMatchAt(s, i) ==
  LET a == SkipWs(s, i)
      b == SkipDigits(s, a)
  IN  /\ b > a
      /\ b <= Len(s)
      /\ s[b] = 58
      /\ LET c == SkipDigits(s, b + 1)
         IN  /\ c > b + 1
             /\ IF c <= Len(s) /\ s[c] = 45
                  THEN LET d == SkipDigits(s, c + 1)
                       IN  d > c + 1 /\ SkipWs(s, d) = Len(s) + 1
                  ELSE SkipWs(s, c) = Len(s) + 1

\* raw.replace(/\s*\d+:\d+(-\d+)?\s*$/, '').trim(): the leftmost match is removed
stripChapterVerse(s) ==
  LET starts == {i \in 1..Len(s) : CvMatchAt(s, i)}
  IN  IF starts = {} THEN trim(s)
      ELSE trim(SubSeq(s, 1, (CHOOSE i \in starts : \A j \in starts : i <= j) - 1))

\* the ways /^X\s*(.+)$/ can split s after its first character: white space up
\* to p, then one character or more, none a line terminator, to the end
RestAfterWs(s, minWs) ==
  {p \in (2 + minWs)..Len(s) :
     /\ \A k \in 2..(p - 1) : IsWs(s[k])
     /\ \A k \in p..Len(s) : ~IsLineTerminator(s[k])}

\* extractNumericPrefix with the numeral dropped: the name alone is returned
extractNumericPrefixDroppingNum(bookRaw) ==
  LET s == normalizeWhitespace(replaceTeluguDigits(bookRaw))
  IN  [num |-> Undefined,
       name |-> IF Len(s) >= 3 /\ s[1] \in {49, 50, 51} /\ s[2] = 32
                  THEN SubSeq(s, 3, Len(s)) ELSE s]

\* Extract numeric prefix (1,2,3) either at start or end; handles Telugu numerals
extractNumericPrefix(bookRaw) ==
  LET s == normalizeWhitespace(replaceTeluguDigits(bookRaw))
      n == Len(s)
      \* /^([1-3])\s+(.+)$/
      mPrefix == n >= 3 /\ s[1] \in {49, 50, 51} /\ RestAfterWs(s, 1) # {}
      \* /^(.+?)\s+([1-3])$/
      mSuffix == /\ n >= 3
                 /\ s[n] \in {49, 50, 51}
                 /\ IsWs(s[n - 1])
                 /\ \E p \in 1..(n - 2) :
                      /\ \A k \in (p + 1)..(n - 1) : IsWs(s[k])
                      /\ \A k \in 1..p : ~IsLineTerminator(s[k])
      \* /^[౦-౯]\s*(.+)$/ on the argument itself
      mTelNumPrefix == /\ Len(bookRaw) >= 2
                       /\ IsTeluguDigit(bookRaw[1])
                       /\ RestAfterWs(bookRaw, 0) # {}
  IN  IF mPrefix THEN [num |-> <<s[1]>>, name |-> trim(SubSeq(s, 3, n))]
      ELSE IF mSuffix THEN [num |-> <<s[n]>>, name |-> trim(SubSeq(s, 1, n - 2))]
      ELSE IF mTelNumPrefix
        THEN [num |-> replaceTeluguDigits(<<bookRaw[1]>>),
              name |-> trim(SubSeq(bookRaw, 2, Len(bookRaw)))]
        ELSE [num |-> Undefined, name |-> s]

\* the characters canonicalKey deletes: . , ; : ! ARABIC-QUESTION-MARK ZWSP
\* (R) TM * ( ) { } [ ] " '
IsKeyPunctuation(c) ==
  c \in {46, 44, 59, 58, 33, 1567, 8203, 174, 8482, 42, 40, 41, 123, 125, 91, 93, 34, 39}

\* canonicalize string for lookups (lowercase ascii, trim punctuation)
canonicalKey(s) == trim(SelectSeq(toLowerCase(s), LAMBDA c : ~IsKeyPunctuation(c)))

\* Try English abbreviation match
tryEnglishAbbreviation(book) ==
  IF book = <<>> THEN Undefined
  ELSE LET key == SelectSeq(canonicalKey(book), LAMBDA c : ~IsWs(c))
           first == abbreviationToBookName(key)
           maybe == IF Truthy(first) THEN first ELSE abbreviationToBookName(toLowerCase(book))
       IN  IF Truthy(maybe) THEN maybe
           ELSE LET alias == ObjectGet(ENGLISH_ALIASES, toLowerCase(book))
                IN  IF Truthy(alias) THEN alias ELSE Undefined

\* the index of the first book of BIBLE_META among those given, 0 for none
FirstBook(hits) == IF hits = {} THEN 0 ELSE CHOOSE i \in hits : \A j \in hits : i <= j

\* BIBLE_META.find(b => b.name.toLowerCase() === lowerName)
FindBookNamed(lowerName) ==
  FirstBook({i \in 1..Len(BIBLE_META) : toLowerCase(BIBLE_META[i].name) = lowerName})

\* BIBLE_META.find(b => b.name.toLowerCase().startsWith(lowerName))
FindBookStartingWith(lowerName) ==
  FirstBook({i \in 1..Len(BIBLE_META) : startsWith(toLowerCase(BIBLE_META[i].name), lowerName)})

\* one pass of the loop over tries that consults TELUGU_TO_ENGLISH only
TryLookupsOfficialNamesOnly(t) ==
  LET key == trim(t)
  IN  << [table |-> 2, key |-> key], [table |-> 2, key |-> canonicalKey(key)] >>

\* the candidate keys of one pass of the loop over tries, in the order tried:
\* each names the table (1: TELUGU_SYNONYMS, 2: TELUGU_TO_ENGLISH) and the key
TryLookups(t) ==
  LET key == trim(t)
      kLower == canonicalKey(key)
  IN  << [table |-> 1, key |-> key], [table |-> 1, key |-> kLower],
         [table |-> 2, key |-> key], [table |-> 2, key |-> kLower],
         [table |-> 1, key |-> toLowerCase(key)] >>

\* the first truthy value the lookups of the candidates give, or undefined
RECURSIVE FirstLookup(_)
FirstLookup(lookups) ==
  IF lookups = <<>> THEN Undefined
  ELSE LET l == Head(lookups)
           v == ObjectGet(IF l.table = 1 THEN TELUGU_SYNONYMS ELSE TELUGU_TO_ENGLISH, l.key)
       IN  IF Truthy(v) THEN v ELSE FirstLookup(Tail(lookups))

\* canonicalizeBook from the numeral and the name on: normalized is the argument with
\* its white space normalized, withoutCv the same without a chapter:verse suffix
CanonicalizeName(normalized, withoutCv, num, name) ==
  LET hasNum == Truthy(num)
      lowerName == toLowerCase(name)
      isAscii == \A i \in 1..Len(name) : name[i] <= 127
      abbrTry == tryEnglishAbbreviation((IF hasNum THEN num \o <<32>> ELSE <<>>) \o name)
      direct == FindBookNamed(lowerName)
      starts == FindBookStartingWith(lowerName)
      tries == (IF hasNum
                  THEN << num \o <<32>> \o name, num \o name, name \o <<32>> \o num >>
                  ELSE << >>) \o << name >>
      found == FirstLookup(TryLookups(tries[1])
                 \o (IF hasNum
                       THEN TryLookups(tries[2]) \o TryLookups(tries[3]) \o TryLookups(tries[4])
                       ELSE << >>))
      abbr == tryEnglishAbbreviation(withoutCv)
  IN  IF isAscii /\ Truthy(abbrTry) THEN abbrTry
      ELSE IF isAscii /\ direct # 0 THEN BIBLE_META[direct].name
      ELSE IF isAscii /\ starts # 0 THEN BIBLE_META[starts].name
      ELSE IF Truthy(found) THEN found
      ELSE IF Truthy(abbr) THEN abbr
      ELSE IF starts # 0 THEN BIBLE_META[starts].name
      ELSE normalized

\* Main normalization: accepts raw book (Telugu/English/abbr), returns
\* canonical English book name (or original)
canonicalizeBook(arg) ==
  IF arg = <<>> THEN arg
  ELSE TheOne({
         TheOne({
           TheOne({CanonicalizeName(normalized, withoutCv, np.num, np.name) :
                   np \in {extractNumericPrefix(withoutCv)}}) :
           withoutCv \in {stripChapterVerse(normalized)}}) :
         normalized \in {normalizeWhitespace(arg)}})

\* String(replaceValue) as String.prototype.replace inserts it: a string as it
\* is (no input of this model holds a "$"), the function Object called on the
\* match gives the match back, any other object prints as "[object Object]"
ReplaceValue(value, match) ==
  IF IsString(value) THEN value
  ELSE IF value = ObjectFunction THEN match
  ELSE <<91,111,98,106,101,99,116,32,79,98,106,101,99,116,93>>

\* the ways a pattern that begins /^([1-3]?\s*<class>+?)/ can take its first
\* group from s, inClass being the positions of s that hold a character of
\* the class: <<digit, spaces, length>>, the group being the first
\* digit + spaces + length characters
GroupOptions(s, inClass) ==
  {o \in (0..1) \X (0..Len(s)) \X (1..Len(s)) :
     /\ o[1] + o[2] + o[3] <= Len(s)
     /\ o[1] = 1 => s[1] \in {49, 50, 51}
     /\ \A k \in (o[1] + 1)..(o[1] + o[2]) : IsWs(s[k])
     /\ \A k \in (o[1] + o[2] + 1)..(o[1] + o[2] + o[3]) : inClass[k]}

\* the order in which the matcher tries them: the optional digit taken before
\* not taken, more white space before less (both greedy), then a shorter run
\* of the class before a longer one (lazy)
TriedBefore(o, p) ==
  \/ o[1] > p[1]
  \/ o[1] = p[1] /\ o[2] > p[2]
  \/ o[1] = p[1] /\ o[2] = p[2] /\ o[3] < p[3]

FirstTried(options) ==
  TheOne({CHOOSE o \in all : \A p \in all : o = p \/ TriedBefore(o, p) : all \in {options}})

\* (?=\s+\d+[:\s]|$) at position q of s
BookPartLookahead(s, q) ==
  \/ q = Len(s) + 1
  \/ LET a == SkipWs(s, q)
         b == SkipDigits(s, a)
     IN  a > q /\ b > a /\ b <= Len(s) /\ (s[b] = 58 \/ IsWs(s[b]))

\* the book part of /^([1-3]?\s*[^\d:]+?)(?=\s+\d+[:\s]|$)/u in cleaned, trimmed;
\* <<>> (null) when there is no match
BookPart(cleaned) ==
  TheOne({IF options = {} THEN << >>
          ELSE TheOne({trim(SubSeq(cleaned, 1, o[1] + o[2] + o[3])) : o \in {FirstTried(options)}}) :
            options \in {{o \in GroupOptions(cleaned, [k \in 1..Len(cleaned) |->
                                                         ~IsDigit(cleaned[k]) /\ cleaned[k] # 58]) :
                            BookPartLookahead(cleaned, o[1] + o[2] + o[3] + 1)}}})

\* cleaned.replace(bookPart, canonical): the first occurrence replaced
ReplaceBookPart(cleaned, bookPart, canonical) ==
  TheOne({SubSeq(cleaned, 1, at - 1)
            \o ReplaceValue(canonical, bookPart)
            \o SubSeq(cleaned, at + Len(bookPart), Len(cleaned)) :
          at \in {IndexOf(cleaned, bookPart)}})

\* normalizeTeluguReference: convert a string that MAY begin with a telugu book
\* name to english.  Replaces the book portion only and returns the new string.
normalizeTeluguReference(query) ==
  IF query = <<>> THEN query
  ELSE TheOne({
         TheOne({IF bookPart = <<>> THEN cleaned
                 ELSE TheOne({ReplaceBookPart(cleaned, bookPart, canonical) :
                                canonical \in {canonicalizeBook(bookPart)}}) :
                 bookPart \in {BookPart(cleaned)}}) :
         cleaned \in {normalizeWhitespace(query)}})

\* the book of BIBLE_META at index i as findBookMetadata returns it
BookFound(i) ==
  [kind |-> "meta", name |-> BIBLE_META[i].name, chapters |-> BIBLE_META[i].chapters]

\* bookMeta[key] of a value findBookMetadata returned: the elements of
\* BIBLE_META are built as { name, chapters } and hold no other property
MetaGet(bookMeta, key) ==
  IF key \in DOMAIN bookMeta THEN bookMeta[key] ELSE Undefined

\* findBookMetadata once eng = canonicalizeBook(cleaned) is known
FindCanonical(eng) ==
  IF ~IsString(eng) THEN [kind |-> "throw"]
  ELSE TheOne({
    LET direct == FindBookNamed(lowerEng)
        starts == FindBookStartingWith(lowerEng)
        abbr == tryEnglishAbbreviation(eng)
        found == {i \in 1..Len(BIBLE_META) : BIBLE_META[i].name = abbr}
    IN  IF direct # 0 THEN BookFound(direct)
        ELSE IF starts # 0 THEN BookFound(starts)
        ELSE IF Truthy(abbr) /\ found # {} THEN BookFound(FirstBook(found))
        ELSE [kind |-> "null"] :
    lowerEng \in {toLowerCase(eng)}})

\* findBookMetadata: robust lookup for English / normalized Telugu names.
\* Returns the book ([kind |-> "meta", ...]), null, or throws: a value of
\* canonicalizeBook that is no string has no toLowerCase
findBookMetadata(query) ==
  IF query = <<>> THEN [kind |-> "null"]
  ELSE TheOne({TheOne({FindCanonical(eng) : eng \in {canonicalizeBook(cleaned)}}) :
               cleaned \in {trim(query)}})

(***************************************************************************)
(* App.tsx: the search logic.                                              *)
(***************************************************************************)
\* the class of referenceRegex: [A-Za-zఀ-౿.'’\- ]
IsBookChar(c) ==
  \/ (c >= 65 /\ c <= 90)
  \/ (c >= 97 /\ c <= 122)
  \/ (c >= 3072 /\ c <= 3199)
  \/ c \in {46, 39, 8217, 45, 160}

\* /\s+(\d+)\s*:\s*(\d+)(?:-(\d+))?$/ from position q of s: the positions
\* <<a, b, c, d, e, f>> with s[a..b-1] the chapter, s[c..d-1] the verse and
\* s[e..f-1] the end verse (e = f: none), or <<>> when it does not match
ReferenceTail(s, q) ==
  LET a == SkipWs(s, q)
      b == SkipDigits(s, a)
      colon == SkipWs(s, b)
  IN  IF ~(a > q /\ b > a /\ colon <= Len(s) /\ s[colon] = 58) THEN <<>>
      ELSE
        LET c == SkipWs(s, colon + 1)
            d == SkipDigits(s, c)
            f == IF d <= Len(s) /\ s[d] = 45 THEN SkipDigits(s, d + 1) ELSE d
        IN  IF d > c /\ d = Len(s) + 1 THEN <<a, b, c, d, d, d>>
            ELSE IF d > c /\ f > d + 1 /\ f = Len(s) + 1 THEN <<a, b, c, d, d + 1, f>>
            ELSE <<>>

\* referenceRegex:
\* /^([1-3]?\s*[A-Za-zఀ-౿.'’\- ]+?)\s+(\d+)\s*:\s*(\d+)(?:-(\d+))?$/u
\* The groups of the match, or <<>> (null) when s does not match
referenceRegex(s) ==
  TheOne({IF options = {} THEN <<>>
          ELSE TheOne({TheOne({<< SubSeq(s, 1, o[1] + o[2] + o[3]),
                                  SubSeq(s, t[1], t[2] - 1),
                                  SubSeq(s, t[3], t[4] - 1),
                                  SubSeq(s, t[5], t[6] - 1) >> :
                               t \in {ReferenceTail(s, o[1] + o[2] + o[3] + 1)}}) :
                       o \in {FirstTried(options)}}) :
          options \in {{o \in GroupOptions(s, [k \in 1..Len(s) |-> IsBookChar(s[k])]) :
                          ReferenceTail(s, o[1] + o[2] + o[3] + 1) # <<>>}}})

\* refString.split(/\s*[;,]\s*/): the pieces between the separators, the white
\* space around each separator belonging to the separator
RECURSIVE split(_)
split(s) ==
  LET seps == {i \in 1..Len(s) : s[i] \in {59, 44}}
  IN  IF seps = {} THEN << s >>
      ELSE LET i == CHOOSE x \in seps : \A y \in seps : x <= y
               wsFrom == CHOOSE j \in 1..i : /\ \A k \in j..(i - 1) : IsWs(s[k])
                                             /\ (j = 1 \/ ~IsWs(s[j - 1]))
           IN  << SubSeq(s, 1, wsFrom - 1) >> \o split(SubSeq(s, SkipWs(s, i + 1), Len(s)))

\* if (chapterNum < 1 || chapterNum > bookMeta.chapters) continue, with the
\* last chapter of the book rejected as well
chapterOutOfRangeExclusive(chapterNum, chapters) == chapterNum < 1 \/ chapterNum >= chapters

\* if (chapterNum < 1 || chapterNum > bookMeta.chapters) continue
chapterOutOfRange(chapterNum, chapters) == chapterNum < 1 \/ chapterNum > chapters

\* the loop body once the match m of referenceRegex is known
ParseMatch(m) ==
  IF m = <<>> THEN [kind |-> "skip"]
  ELSE TheOne({
    LET chapterNum == parseInt(m[2])
        startVerseNum == parseInt(m[3])
        endVerseNum == IF m[4] # <<>> THEN << parseInt(m[4]) >> ELSE << >>
    IN  IF bookMeta.kind = "throw" THEN [kind |-> "throw"]
        ELSE IF bookMeta.kind = "null" THEN [kind |-> "skip"]
        ELSE IF chapterOutOfRange(chapterNum, bookMeta.chapters) THEN [kind |-> "skip"]
        ELSE IF endVerseNum # <<>> /\ endVerseNum[1] < startVerseNum THEN [kind |-> "skip"]
        ELSE [kind |-> "push",
              ref |-> [book |-> bookMeta.name, chapter |-> chapterNum,
                       startVerse |-> startVerseNum, endVerse |-> endVerseNum]] :
    bookMeta \in {TheOne({findBookMetadata(bookCandidate) : bookCandidate \in {trim(m[1])}})}})

\* one pass of the loop of parseReferencesFromString over a part: the
\* references it pushes (none or one), or "throw" when findBookMetadata throws
ParsePart(rawPart) ==
  TheOne({IF text = <<>> THEN [kind |-> "skip"]
          ELSE TheOne({TheOne({ParseMatch(m) : m \in {referenceRegex(normalizedWhole)}}) :
                       normalizedWhole \in {normalizeTeluguReference(text)}}) :
          text \in {trim(rawPart)}})

\* the loop over the parts: the references pushed so far, until a part throws
RECURSIVE ParseParts(_, _)
ParseParts(parts, acc) ==
  IF parts = <<>> THEN [threw |-> FALSE, refs |-> acc]
  ELSE TheOne({IF p.kind = "throw" THEN [threw |-> TRUE, refs |-> << >>]
               ELSE ParseParts(Tail(parts), IF p.kind = "push" THEN Append(acc, p.ref) ELSE acc) :
               p \in {ParsePart(Head(parts))}})

\* parseReferencesFromString: the ParsedReference[] returned, or threw = TRUE
\* when the call ends in an exception (a TypeError out of findBookMetadata)
parseReferencesFromString(s) == TheOne({ParseParts(parts, << >>) : parts \in {split(s)}})

(***************************************************************************)
(* services/bibleService.ts: the Bible API fetcher.                        *)
(***************************************************************************)
\* `${value}`: a string as it is, the function Object as its source text,
\* any other object as "[object Object]"
TemplateString(value) ==
  IF IsString(value) THEN value
  ELSE IF value = ObjectFunction
    THEN <<102,117,110,99,116,105,111,110,32,79,98,106,101,99,116,40,41,32,123,32,
           91,110,97,116,105,118,101,32,99,111,100,101,93,32,125>>
  ELSE <<91,111,98,106,101,99,116,32,79,98,106,101,99,116,93>>

\* `${n}` of a number that is a natural
RECURSIVE NumberString(_)
NumberString(n) ==
  IF n < 10 THEN << 48 + n >>
  ELSE Append(NumberString(n \div 10), 48 + (n % 10))

\* the two requests of Promise.all([fetchTranslationForReference(reference,
\* 'web'), fetchTranslationForReference(reference, 'kjv')]), in the order sent;
\* book is the name the reference was built with
RequestPair(book, reference) ==
  << [book |-> book, reference |-> reference, translation |-> "web"],
     [book |-> book, reference |-> reference, translation |-> "kjv"] >>

\* fetchChapter up to its await: the requests sent for `${engBook} ${chapter}`
fetchChapterRequests(book, chapter) ==
  TheOne({RequestPair(engBook, TemplateString(engBook) \o <<32>> \o NumberString(chapter)) :
          engBook \in {canonicalizeBook(book)}})

\* the referenceString of fetchVersesByReferences for ref, engBook being
\* canonicalizeBook(ref.book); an endVerse of 0 is falsy, as undefined is
ReferenceString(engBook, ref) ==
  TemplateString(engBook) \o <<32>> \o NumberString(ref.chapter) \o <<58>>
    \o NumberString(ref.startVerse)
    \o (IF ref.endVerse # << >> /\ ref.endVerse[1] # 0
          THEN <<45>> \o NumberString(ref.endVerse[1])
          ELSE << >>)

\* fetchVersesByReferences up to its await: the requests sent, reference by
\* reference
RECURSIVE fetchVersesByReferencesRequests(_)
fetchVersesByReferencesRequests(references) ==
  IF references = << >> THEN << >>
  ELSE TheOne({RequestPair(engBook, ReferenceString(engBook, Head(references))) :
               engBook \in {canonicalizeBook(Head(references).book)}})
         \o fetchVersesByReferencesRequests(Tail(references))

\* what the verse API may answer to the requests of one reference: verses, no
\* verses, or a failure (the fetch rejects or the status is not ok)
ApiAnswers == {"verses", "none", "error"}

\* the FullVerse list of one reference the API answered with verses: the
\* verses asked for, under the name the request was built with
VersesOf(ref) ==
  LET engBook == canonicalizeBook(ref.book)
      last == IF ref.endVerse # << >> /\ ref.endVerse[1] # 0
                THEN ref.endVerse[1] ELSE ref.startVerse
  IN  [i \in 1..(last - ref.startVerse + 1) |->
         [book |-> engBook, chapter |-> ref.chapter, verse |-> ref.startVerse + i - 1]]

\* results.flat() of fetchVersesByReferences, answers[i] being the answer to
\* the requests of references[i], none of them a failure
RECURSIVE FlatResults(_, _)
FlatResults(references, answers) ==
  IF references = << >> THEN << >>
  ELSE (IF Head(answers) = "verses" THEN VersesOf(Head(references)) ELSE << >>)
         \o FlatResults(Tail(references), Tail(answers))

(***************************************************************************)
(* services/geminiService.ts: the keyword search.                          *)
(***************************************************************************)
\* the same replacement leaving every run as it is
CollapseRunsKeepingAll(s, x) == s

\* s.replace(/x+/g, "x") for the character x: a run of x becomes one x
RECURSIVE CollapseRuns(_, _)
CollapseRuns(s, x) ==
  IF Len(s) < 2 THEN s
  ELSE IF s[1] = x /\ s[2] = x THEN CollapseRuns(Tail(s), x)
  ELSE << s[1] >> \o CollapseRuns(Tail(s), x)

\* searchBibleByKeyword once safeGenerate has settled: answer is <<text>>
\* when it resolved with text and << >> when it rejected (the catch returns "")
searchBibleByKeyword(answer) ==
  IF answer = << >> THEN << >>
  ELSE trim(CollapseRuns(SelectSeq(answer[1], LAMBDA c : c \notin {10, 91, 93}), 32))

(***************************************************************************)
(* App.tsx: the search form.                                               *)
(***************************************************************************)
\* the messages of setSearchError; query is what the message quotes
ErrorMessage(text, query) == << [text |-> text, query |-> query] >>

\* the state of the component after its first render
AppInit ==
  /\ searchQuery = << >>
  /\ searchError = << >>
  /\ isSearchView = FALSE
  /\ isSearching = FALSE
  /\ searchResults = << >>
  /\ selectedBook = <<71,101,110,101,115,105,115>>
  /\ selectedChapter = 1
  /\ selectedVerseRef = << >>
  /\ pc = "idle"
  /\ outcome = "none"
  /\ searches = 0

\* the branch of handleSearch for one parsed reference: a navigation, or the
\* message of an invalid chapter
NavigateTo(ref) ==
  LET bookMeta == {i \in 1..Len(BIBLE_META) : BIBLE_META[i].name = ref.book}
  IN  IF bookMeta = {} \/ ref.chapter < 1 \/ ref.chapter > BIBLE_META[FirstBook(bookMeta)].chapters
        THEN /\ searchError' = ErrorMessage("Invalid chapter for", ref.book)
             /\ outcome' = "error"
             /\ UNCHANGED <<searchQuery, isSearchView, selectedBook, selectedChapter,
                            selectedVerseRef>>
        ELSE /\ searchError' = << >>
             /\ isSearchView' = FALSE
             /\ selectedBook' = ref.book
             /\ selectedChapter' = ref.chapter
             /\ selectedVerseRef' = IF ref.startVerse # 0
                                      THEN << [book |-> ref.book, chapter |-> ref.chapter,
                                               verse |-> ref.startVerse] >>
                                      ELSE << >>
             /\ searchQuery' = << >>
             /\ outcome' = "navigated"

\* handleSearch from the parsed references on, up to its first await or its
\* return; p is what parseReferencesFromString came to
SearchParsed(p) ==
  IF p.threw
    THEN \* the exception leaves the handler: nothing after setSearchError(null) runs
         /\ searchError' = << >>
         /\ outcome' = "threw"
         /\ pc' = "idle"
         /\ UNCHANGED <<searchQuery, isSearchView, isSearching, searchResults, selectedBook,
                        selectedChapter, selectedVerseRef, requests>>
  ELSE IF Len(p.refs) > 1
    THEN /\ searchError' = << >>
         /\ isSearching' = TRUE
         /\ requests' = requests \o fetchVersesByReferencesRequests(p.refs)
         /\ outcome' = "pending"
         /\ pc' = "fetchParsed"
         /\ UNCHANGED <<searchQuery, isSearchView, searchResults, selectedBook,
                        selectedChapter, selectedVerseRef>>
  ELSE IF Len(p.refs) = 1
    THEN /\ NavigateTo(p.refs[1])
         /\ pc' = "idle"
         /\ UNCHANGED <<isSearching, searchResults, requests>>
  ELSE /\ searchError' = << >>
       /\ isSearching' = TRUE
       /\ outcome' = "pending"
       /\ pc' = "searchKeyword"
       /\ UNCHANGED <<searchQuery, isSearchView, searchResults, selectedBook,
                      selectedChapter, selectedVerseRef, requests>>

\* onSubmit={handleSearch}: the handler from the submit to its first await or
\* its return
HandleSearch ==
  /\ pc = "typed"
  /\ searches' = searches + 1
  /\ LET query == trim(searchQuery)
     IN  IF query = << >>
           THEN /\ pc' = "idle"
                /\ outcome' = "ignored"
                /\ UNCHANGED <<refString, parsed, searchQuery, searchError, isSearchView,
                               isSearching, searchResults, selectedBook, selectedChapter,
                               selectedVerseRef, requests>>
           ELSE \E normalizedQueryForParse \in {normalizeTeluguReference(query)} :
                  \E parsedRefs \in {parseReferencesFromString(normalizedQueryForParse)} :
                    /\ refString' = normalizedQueryForParse
                    /\ parsed' = << parsedRefs >>
                    /\ SearchParsed(parsedRefs)
  /\ UNCHANGED laterVars
  /\ UNCHANGED <<raw, rets, typed, geminiVars>>

\* the finally of both try blocks
SearchFinally ==
  /\ isSearching' = FALSE
  /\ searchQuery' = << >>
  /\ pc' = "idle"

\* await fetchVersesByReferences(parsedRefs) settles, in the branch of several
\* parsed references
FetchParsedSettles ==
  /\ pc = "fetchParsed"
  /\ \E answers \in [1..Len(parsed[1].refs) -> ApiAnswers] :
       IF \E i \in DOMAIN answers : answers[i] = "error"
         THEN /\ searchError' = ErrorMessage("Failed to fetch results.", << >>)
              /\ outcome' = "error"
              /\ UNCHANGED <<searchResults, isSearchView>>
         ELSE /\ searchResults' = FlatResults(parsed[1].refs, answers)
              /\ isSearchView' = TRUE
              /\ outcome' = "results"
              /\ UNCHANGED searchError
  /\ SearchFinally
  /\ UNCHANGED laterVars
  /\ UNCHANGED <<parseVars, selectedBook, selectedChapter, selectedVerseRef, searches, requests,
                 geminiVars>>

\* what the generator may answer to the keyword prompt: nothing, a word that
\* is no reference, references one to a line in brackets, a list, a reference
\* to a book no table knows, one to the book "constructor"
KeywordAnswers ==
  { << >>,
    << << >> >>,
    << <<32,10>> >>,
    << <<110,111,110,101>> >>,                                          \* "none"
    << <<91,74,111,104,110,32,51,58,49,54,93,10>> >>,                   \* "[John 3:16]\n"
    << <<74,111,104,110,32,51,58,49,54,44,32,32,82,111,109,32,56,58,49,45,50>> >>,
                                                                        \* "John 3:16,  Rom 8:1-2"
    << <<99,111,110,115,116,114,117,99,116,111,114,32,49,58,49>> >> }   \* "constructor 1:1"

\* await searchBibleByKeyword(normalizedForAI) settles: the handler from there
\* to its next await or its return
KeywordSettles ==
  /\ pc = "searchKeyword"
  /\ \E answer \in KeywordAnswers :
       \E referenceString \in {searchBibleByKeyword(answer)} :
         IF trim(referenceString) = << >>
           THEN /\ searchError' = ErrorMessage("No verses found for", trim(typed.text))
                /\ searchResults' = << >>
                /\ isSearchView' = TRUE
                /\ outcome' = "error"
                /\ SearchFinally
                /\ UNCHANGED <<refString, parsed, requests>>
           ELSE \E normalizedRefString \in {normalizeTeluguReference(referenceString)} :
                  \E keywordRefs \in {parseReferencesFromString(normalizedRefString)} :
                    /\ refString' = normalizedRefString
                    /\ parsed' = << keywordRefs >>
                    /\ IF keywordRefs.threw
                         THEN /\ searchError' = ErrorMessage("An error occurred during keyword search.", << >>)
                              /\ outcome' = "error"
                              /\ SearchFinally
                              /\ UNCHANGED <<searchResults, isSearchView, requests>>
                       ELSE IF Len(keywordRefs.refs) = 0
                         THEN /\ searchError' = ErrorMessage("Could not parse results for", trim(typed.text))
                              /\ searchResults' = << >>
                              /\ isSearchView' = TRUE
                              /\ outcome' = "error"
                              /\ SearchFinally
                              /\ UNCHANGED requests
                       ELSE /\ requests' = requests \o fetchVersesByReferencesRequests(keywordRefs.refs)
                            /\ pc' = "fetchKeyword"
                            /\ UNCHANGED <<searchError, searchResults, isSearchView, isSearching,
                                           searchQuery, outcome>>
  /\ UNCHANGED laterVars
  /\ UNCHANGED <<raw, rets, typed, selectedBook, selectedChapter, selectedVerseRef, searches,
                 geminiVars>>

\* await fetchVersesByReferences(keywordRefs) settles
FetchKeywordSettles ==
  /\ pc = "fetchKeyword"
  /\ \E answers \in [1..Len(parsed[1].refs) -> ApiAnswers] :
       IF \E i \in DOMAIN answers : answers[i] = "error"
         THEN /\ searchError' = ErrorMessage("An error occurred during keyword search.", << >>)
              /\ outcome' = "error"
              /\ UNCHANGED <<searchResults, isSearchView>>
         ELSE /\ searchResults' = FlatResults(parsed[1].refs, answers)
              /\ isSearchView' = TRUE
              /\ outcome' = "results"
              /\ UNCHANGED searchError
  /\ SearchFinally
  /\ UNCHANGED laterVars
  /\ UNCHANGED <<parseVars, selectedBook, selectedChapter, selectedVerseRef, searches, requests,
                 geminiVars>>

\* onClear={handleClearSearch}, the button of the search view
handleClearSearch ==
  /\ pc = "idle"
  /\ isSearchView
  /\ isSearchView' = FALSE
  /\ searchResults' = << >>
  /\ searchError' = << >>
  /\ UNCHANGED laterVars
  /\ UNCHANGED <<parseVars, searchQuery, isSearching, selectedBook, selectedChapter,
                 selectedVerseRef, pc, outcome, searches, requests, geminiVars>>

(***************************************************************************)
(* services/geminiService.ts: the transliteration sanitizer.               *)
(***************************************************************************)
\* the concatenation of the strings of a sequence
RECURSIVE Concat(_)
Concat(strings) ==
  IF Len(strings) = 0 THEN << >>
  ELSE IF Len(strings) = 1 THEN strings[1]
  ELSE Concat(SubSeq(strings, 1, Len(strings) \div 2))
         \o Concat(SubSeq(strings, Len(strings) \div 2 + 1, Len(strings)))

IsAsciiAlnum(c) ==
  \/ (c >= 65 /\ c <= 90)
  \/ (c >= 97 /\ c <= 122)
  \/ (c >= 48 /\ c <= 57)

\* \p{M}: the combining marks (of the Basic Multilingual Plane: the
\* diacritical marks and their supplements, the Hebrew points and accents)
IsMark(c) ==
  \/ (c >= 768 /\ c <= 879)
  \/ (c >= 1425 /\ c <= 1469) \/ c \in {1471, 1473, 1474, 1476, 1477, 1479}
  \/ (c >= 6832 /\ c <= 6911)
  \/ (c >= 7616 /\ c <= 7679)
  \/ (c >= 8400 /\ c <= 8447)
  \/ (c >= 65056 /\ c <= 65071)

\* what the replacements of `map` make of the character c, the pairs applied
\* in their order: each pattern is a set of single characters and no
\* replacement holds a character of a later pattern
MapChar(c) ==
  IF c = 257 THEN <<97,97>>                                   \* ā -> aa
  ELSE IF c = 275 THEN <<101,101>>                            \* ē -> ee
  ELSE IF c = 299 THEN <<105,105>>                            \* ī -> ii
  ELSE IF c = 333 THEN <<111,111>>                            \* ō -> oo
  ELSE IF c = 363 THEN <<117,117>>                            \* ū -> uu
  ELSE IF c = 601 THEN <<97>>                                 \* ə -> a
  ELSE IF c = 7717 THEN <<104>>                               \* ḥ -> h
  ELSE IF c = 7789 THEN <<116>>                               \* ṭ -> t
  ELSE IF c = 7779 THEN <<115>>                               \* ṣ -> s
  ELSE IF c \in {353, 347} THEN <<115,104>>                   \* š ś -> sh
  ELSE IF c = 7695 THEN <<100>>                               \* ḏ -> d
  ELSE IF c = 7791 THEN <<116>>                               \* ṯ -> t
  ELSE IF c = 7687 THEN <<98>>                                \* ḇ -> b
  ELSE IF c = 7827 THEN <<122>>                               \* ẓ -> z
  ELSE IF c \in {703, 702, 700, 8217, 96} THEN <<39>>         \* ʿ ʾ ʼ ’ ` -> '
  ELSE IF c \in {225, 224, 226, 227, 228} THEN <<97>>         \* á à â ã ä -> a
  ELSE IF c \in {233, 232, 234, 235} THEN <<101>>             \* é è ê ë -> e
  ELSE IF c \in {237, 236, 238, 239} THEN <<105>>             \* í ì î ï -> i
  ELSE IF c \in {243, 242, 244, 245, 246} THEN <<111>>        \* ó ò ô õ ö -> o
  ELSE IF c \in {250, 249, 251, 252} THEN <<117>>             \* ú ù û ü -> u
  ELSE IF IsMark(c) THEN << >>                                \* \p{M} -> ""
  ELSE << c >>

\* s.replace(/([A-Za-z0-9])'([A-Za-z0-9])/g, "$1-$2") from position i on: the
\* matches are taken from left to right and do not overlap
RECURSIVE ApostropheToHyphen(_, _)
ApostropheToHyphen(s, i) ==
  IF i + 2 > Len(s) THEN SubSeq(s, i, Len(s))
  ELSE IF IsAsciiAlnum(s[i]) /\ s[i + 1] = 39 /\ IsAsciiAlnum(s[i + 2])
    THEN << s[i], 45, s[i + 2] >> \o ApostropheToHyphen(s, i + 3)
  ELSE << s[i] >> \o ApostropheToHyphen(s, i + 1)

\* sanitizeModelTranslitOptionB
sanitizeModelTranslitOptionB(input) ==
  IF input = << >> THEN << >>
  ELSE LET mapped == Concat([i \in 1..Len(input) |-> MapChar(input[i])])
           ascii == SelectSeq(mapped, LAMBDA c : IsAsciiAlnum(c) \/ c \in {39, 45} \/ IsWs(c))
           apostrophes == CollapseRuns(ascii, 39)
           hyphenated == ApostropheToHyphen(apostrophes, 1)
           hyphens == CollapseRuns(hyphenated, 45)
       IN  trim(hyphens)

(***************************************************************************)
(* services/geminiService.ts: the interlinear branch of getVerseAnalysis.  *)
(* The matchers below give, for a pattern and a position of a string, the  *)
(* position after the match, or 0 when the pattern does not match there.   *)
(***************************************************************************)
\* the end of the run of characters of class that starts at position i
RunEnd(s, i, class) ==
  CHOOSE j \in i..(Len(s) + 1) :
    /\ \A k \in i..(j - 1) : s[k] \in class
    /\ (j = Len(s) + 1 \/ s[j] \notin class)

\* \s* from position i, i being 0 when the match failed before
Ws(s, i) == IF i = 0 THEN 0 ELSE SkipWs(s, i)

\* \** from position i
Stars(s, i) == IF i = 0 THEN 0 ELSE RunEnd(s, i, {42})

\* the literal lit (in lower case) from position i, under the flag i
Lit(s, i, lit) ==
  IF i = 0 \/ i + Len(lit) - 1 > Len(s) THEN 0
  ELSE IF toLowerCase(SubSeq(s, i, i + Len(lit) - 1)) = lit THEN i + Len(lit)
  ELSE 0

\* one character of class from position i, or nothing: [..]?
Optional(s, i, class) ==
  IF i = 0 THEN 0
  ELSE IF i <= Len(s) /\ s[i] \in class THEN i + 1
  ELSE i

\* one character of class from position i: [..]
OneOf(s, i, class) ==
  IF i = 0 \/ i > Len(s) THEN 0
  ELSE IF s[i] \in class THEN i + 1
  ELSE 0

\* (lit\s*)? from position i
OptionalWord(s, i, lit) ==
  IF Lit(s, i, lit) # 0 THEN Ws(s, Lit(s, i, lit)) ELSE i

\* \s*[:：]?\** from position i: the end of every header pattern
HeaderTail(s, i) == Stars(s, Optional(s, Ws(s, i), {58, 65306}))

\* the header patterns from position p, n being the number of the section:
\*   /\**\s*1\.\s*(Hebrew|Greek)\s*Text\s*[:：]?\**/i
\*   /\**\s*2\.\s*(English\s*)?Transliteration\s*[:：]?\**/i
\*   /\**\s*3\.\s*(Smooth\s*)?English\s*Translation\s*[:：]?\**/i
\*   /\**\s*4\.\s*Word[- ]by[- ]Word Analysis\s*[:：]?\**/i
HeaderAt(n, s, p) ==
  LET numbered == Ws(s, Lit(s, Ws(s, Stars(s, p)), << 48 + n, 46 >>))
  IN  IF numbered = 0 THEN 0
      ELSE IF n = 1
        THEN LET hebrew == Lit(s, numbered, <<104,101,98,114,101,119>>)
                 greek == Lit(s, numbered, <<103,114,101,101,107>>)
             IN  HeaderTail(s, Lit(s, Ws(s, IF hebrew # 0 THEN hebrew ELSE greek),
                                   <<116,101,120,116>>))
      ELSE IF n = 2
        THEN HeaderTail(s, Lit(s, OptionalWord(s, numbered, <<101,110,103,108,105,115,104>>),
                               <<116,114,97,110,115,108,105,116,101,114,97,116,105,111,110>>))
      ELSE IF n = 3
        THEN HeaderTail(s, Lit(s, Ws(s, Lit(s, OptionalWord(s, numbered, <<115,109,111,111,116,104>>),
                                            <<101,110,103,108,105,115,104>>)),
                               <<116,114,97,110,115,108,97,116,105,111,110>>))
      ELSE HeaderTail(s, Lit(s, OneOf(s, Lit(s, OneOf(s, Lit(s, numbered, <<119,111,114,100>>),
                                                       {45, 32}),
                                              <<98,121>>),
                                      {45, 32}),
                             <<119,111,114,100,32,97,110,97,108,121,115,105,115>>))

\* "**n. <title>:**", the header a match is replaced with
NormalHeader(n) ==
  <<42, 42, 48 + n, 46, 32>>
    \o (IF n = 1 THEN <<71,114,101,101,107,32,84,101,120,116>>
        ELSE IF n = 2
          THEN <<69,110,103,108,105,115,104,32,84,114,97,110,115,108,105,116,101,114,97,116,105,111,110>>
        ELSE IF n = 3
          THEN <<83,109,111,111,116,104,32,69,110,103,108,105,115,104,32,
                 84,114,97,110,115,108,97,116,105,111,110>>
        ELSE <<87,111,114,100,45,98,121,45,87,111,114,100,32,65,110,97,108,121,115,105,115>>)
    \o <<58, 42, 42>>

\* the least position of a non-empty set of positions
Leftmost(positions) == CHOOSE p \in positions : \A q \in positions : p <= q

\* s.replace(<header pattern n>, NormalHeader(n)): the leftmost match replaced
NormalizeHeader(n, s) ==
  TheOne({IF at = {} THEN s
          ELSE TheOne({SubSeq(s, 1, p - 1) \o NormalHeader(n)
                         \o SubSeq(s, HeaderAt(n, s, p), Len(s)) : p \in {Leftmost(at)}}) :
          at \in {{p \in 1..(Len(s) + 1) : HeaderAt(n, s, p) # 0}}})

\* \b at position p of s, p holding a word character
WordStart(s, p) == p = 1 \/ ~(IsAsciiAlnum(s[p - 1]) \/ s[p - 1] = 95)

\* the fixed part of the two alternatives of sec2Rx (n = 2) and wbaSectionRx
\* (n = 4) from position p: "**n.\s*<title>:**" or "\bn.\s*<title>", each
\* with the white space after it that the pattern may take:
\* <<end of the title, end of the white space>>, or <<>>.  In the second
\* alternative an optional colon stands in that white space.
SectionStart(n, s, p) ==
  LET title == toLowerCase(SubSeq(NormalHeader(n), 6, Len(NormalHeader(n)) - 3))
      bold == Lit(s, Lit(s, Ws(s, Lit(s, p, << 42, 42, 48 + n, 46 >>)), title), <<58, 42, 42>>)
      plain == IF p <= Len(s) /\ WordStart(s, p)
                 THEN Lit(s, Ws(s, Lit(s, p, << 48 + n, 46 >>)), title)
                 ELSE 0
  IN  IF bold # 0 THEN << bold, Ws(s, bold) >>
      ELSE IF plain # 0 THEN << plain, Ws(s, Optional(s, Ws(s, plain), {58, 65306})) >>
      ELSE << >>

\* (?=\n\s*(?:\*\*3\.|\b3\.|---)) at position q of s; after \n\s* the
\* character before a "3" is white space, so that \b holds
Sec2Lookahead(s, q) ==
  /\ q <= Len(s)
  /\ s[q] = 10
  /\ LET a == SkipWs(s, q + 1)
     IN  \/ Lit(s, a, <<42,42,51,46>>) # 0
         \/ Lit(s, a, <<51,46>>) # 0
         \/ Lit(s, a, <<45,45,45>>) # 0

\* sec2Rx at position p: the group ([\s\S]*?) as <<from, to>> (the characters
\* from..to-1), or <<>> when there is no match at p.  The white space before
\* the group is taken as long as a match allows and the group as short:
\* the group begins after all the white space when the lookahead holds
\* somewhere from there on, and otherwise is empty, at the last place in the
\* white space where the lookahead holds
Sec2At(s, p) ==
  TheOne({IF start = << >> THEN << >>
          ELSE TheOne({
            IF after # {} THEN << start[2], Leftmost(after) >>
            ELSE TheOne({IF within = {} THEN << >>
                         ELSE TheOne({<< q, q >> : q \in {CHOOSE x \in within : \A y \in within : x >= y}}) :
                         within \in {{q \in start[1]..(start[2] - 1) : Sec2Lookahead(s, q)}}}) :
            after \in {{q \in start[2]..Len(s) : Sec2Lookahead(s, q)}}}) :
          start \in {SectionStart(2, s, p)}})

\* the part of the interlinear branch that sanitizes section 2: the match of
\* sec2Rx, and sec2m[1] replaced where it first occurs in the text
SanitizeSection2(s) ==
  TheOne({IF at = {} THEN s
          ELSE TheOne({
            IF m[1] = m[2] THEN s
            ELSE TheOne({
                   TheOne({SubSeq(s, 1, i - 1)
                             \o <<10>> \o trim(sanitizeModelTranslitOptionB(group)) \o <<10>>
                             \o SubSeq(s, i + Len(group), Len(s)) :
                           i \in {IndexOf(s, group)}}) :
                   group \in {SubSeq(s, m[1], m[2] - 1)}}) :
            m \in {Sec2At(s, Leftmost(at))}}) :
          at \in {{p \in 1..Len(s) : Sec2At(s, p) # << >>}}})

\* s.replace(/\(([^\)\n]+)\)/g, (_match, inner) => `(${sanitize(inner)})`)
\* from position i on
RECURSIVE CleanParentheticals(_, _)
CleanParentheticals(s, i) ==
  LET opens == {p \in i..Len(s) : s[p] = 40}
      open == IF opens = { } THEN 0 ELSE Leftmost(opens)
      stops == {q \in (open + 1)..Len(s) : s[q] \in {41, 10}}
      q == IF stops = { } THEN 0 ELSE Leftmost(stops)
  IN  IF open = 0 THEN SubSeq(s, i, Len(s))
      ELSE IF q > open + 1 /\ s[q] = 41
        THEN SubSeq(s, i, open) \o sanitizeModelTranslitOptionB(SubSeq(s, open + 1, q - 1))
               \o <<41>> \o CleanParentheticals(s, q + 1)
        ELSE SubSeq(s, i, open) \o CleanParentheticals(s, open + 1)

\* [\p{Script=Greek}Ͱ-Ͽἀ-῿]: the Greek blocks, and the
\* characters of the Greek script that lie outside them (of the Basic
\* Multilingual Plane)
GreekChars ==
  (880..1023) \cup (7936..8191) \cup (7462..7466) \cup (7517..7521) \cup (7526..7530)
    \cup {7615, 8486, 43877}

\* a Greek word of entryRx from position p: [Greek][Greek']*; the position
\* after it, or 0
GreekWord(s, p) ==
  IF p = 0 \/ p > Len(s) THEN 0
  ELSE IF s[p] \notin GreekChars THEN 0
  ELSE RunEnd(s, p + 1, GreekChars \cup {39})

\* the lookahead of entryRx at position q:
\* (?=\s+[Greek][Greek']*\s*\(|$)
EntryLookahead(s, q) ==
  \/ q = Len(s) + 1
  \/ LET a == SkipWs(s, q)
     IN  a > q /\ OneOf(s, Ws(s, GreekWord(s, a)), {40}) # 0

\* entryRx at position p of s:
\*   ([Greek][Greek']*)\s*\(([^()]+)\)\s*-\s*([^.]+?)(?=<lookahead>)
\* The groups as positions, [word: p..w-1, translit: t1..t2-1, gloss:
\* g1..g2-1], or <<>> when there is no match at p.  The white space before
\* the gloss is taken as long as a match allows, the gloss as short.
EntryAt(s, p) ==
  LET w == GreekWord(s, p)
      open == OneOf(s, Ws(s, w), {40})
      stops == IF open = 0 THEN { } ELSE {q \in open..Len(s) : s[q] \in {40, 41}}
      close == IF stops = { } THEN 0 ELSE Leftmost(stops)
      dash == IF close > open /\ s[close] = 41 THEN OneOf(s, Ws(s, close + 1), {45}) ELSE 0
      periods == IF dash = 0 THEN { } ELSE {q \in dash..Len(s) : s[q] = 46}
      \* the gloss holds no period: it ends at the first one at the latest
      limit == IF periods = { } THEN Len(s) + 1 ELSE Leftmost(periods)
      \* the gloss from g1 is the shortest that the lookahead follows
      ends(g1) == {q \in (g1 + 1)..limit : EntryLookahead(s, q)}
      starts == IF dash = 0 THEN { } ELSE {g1 \in dash..Ws(s, dash) : ends(g1) # { }}
  IN  IF starts = { } THEN << >>
      ELSE LET g1 == CHOOSE x \in starts : \A y \in starts : x >= y
           IN  [w |-> w, t1 |-> open, t2 |-> close, g1 |-> g1, g2 |-> Leftmost(ends(g1))]

\* the line pushed for a match of entryRx:
\* `${greek} (${translit}) - ${gloss}`
EntryLine(s, p, m) ==
  LET greek == trim(SubSeq(s, p, m.w - 1))
      translit == sanitizeModelTranslitOptionB(SubSeq(s, m.t1, m.t2 - 1))
      trimmed == trim(SubSeq(s, m.g1, m.g2 - 1))
      \* .replace(/[.,;]+$/, "")
      punctuation == {i \in 1..Len(trimmed) : \A k \in i..Len(trimmed) : trimmed[k] \in {46, 44, 59}}
      stripped == IF punctuation = { } THEN trimmed
                  ELSE SubSeq(trimmed, 1, Leftmost(punctuation) - 1)
      \* .replace(/\s+/g, " ")
      gloss == [i \in 1..Len(stripped) |-> IF IsWs(stripped[i]) THEN 32 ELSE stripped[i]]
  IN  greek \o <<32, 40>> \o translit \o <<41, 32, 45, 32>>
        \o SelectSeq([i \in 1..Len(gloss) |-> IF i > 1 /\ IsWs(stripped[i]) /\ IsWs(stripped[i - 1])
                                                THEN 0 ELSE gloss[i]],
                     LAMBDA c : c # 0)

\* the loop `while ((match = entryRx.exec(rawBlock)) !== null)` from lastIndex
\* on: the entries pushed
RECURSIVE Entries(_, _)
Entries(rawBlock, lastIndex) ==
  TheOne({IF at = { } THEN << >>
          ELSE TheOne({TheOne({<< EntryLine(rawBlock, p, m) >> \o Entries(rawBlock, m.g2) :
                               m \in {EntryAt(rawBlock, p)}}) :
                       p \in {Leftmost(at)}}) :
          at \in {{p \in lastIndex..Len(rawBlock) : EntryAt(rawBlock, p) # << >>}}})

\* simpleRx at position p of s:
\*   /([Greek]+[''ʼ']?)\s*\([^)]+\)\s*-\s*[^(]+/gu
\* The position after the match, or 0
SimpleAt(s, p) ==
  LET run == IF p <= Len(s) /\ s[p] \in GreekChars THEN RunEnd(s, p, GreekChars) ELSE 0
      open == OneOf(s, Ws(s, Optional(s, run, {39, 700})), {40})
      closes == IF open = 0 THEN { } ELSE {q \in open..Len(s) : s[q] = 41}
      close == IF closes = { } THEN 0 ELSE Leftmost(closes)
      dash == IF close > open THEN OneOf(s, Ws(s, close + 1), {45}) ELSE 0
      opens == IF dash = 0 THEN { } ELSE {q \in dash..Len(s) : s[q] = 40}
      end == IF opens = { } THEN Len(s) + 1 ELSE Leftmost(opens)
  IN  IF dash # 0 /\ end > dash THEN end ELSE 0

\* rawBlock.match(simpleRx) from position i on: the matches, from left to right
RECURSIVE SimpleParts(_, _)
SimpleParts(rawBlock, i) ==
  TheOne({IF at = { } THEN << >>
          ELSE TheOne({<< SubSeq(rawBlock, p, SimpleAt(rawBlock, p) - 1) >>
                         \o SimpleParts(rawBlock, SimpleAt(rawBlock, p)) :
                       p \in {Leftmost(at)}}) :
          at \in {{p \in i..Len(rawBlock) : SimpleAt(rawBlock, p) # 0}}})

\* p.trim().replace(/[.,;]+$/, "")
CleanPart(part) ==
  LET trimmed == trim(part)
      punctuation == {i \in 1..Len(trimmed) : \A k \in i..Len(trimmed) : trimmed[k] \in {46, 44, 59}}
  IN  IF punctuation = { } THEN trimmed ELSE SubSeq(trimmed, 1, Leftmost(punctuation) - 1)

\* s.split("\n")
RECURSIVE SplitLines(_)
SplitLines(s) ==
  LET breaks == {i \in 1..Len(s) : s[i] = 10}
  IN  IF breaks = { } THEN << s >>
      ELSE << SubSeq(s, 1, Leftmost(breaks) - 1) >>
             \o SplitLines(SubSeq(s, Leftmost(breaks) + 1, Len(s)))

\* lines.join("\n")
RECURSIVE JoinLines(_)
JoinLines(lines) ==
  IF lines = << >> THEN << >>
  ELSE IF Len(lines) = 1 THEN lines[1]
  ELSE lines[1] \o <<10>> \o JoinLines(Tail(lines))

\* the last fallback: a line break forced before every run of Greek
\* characters, the lines trimmed and the empty ones dropped
ForceSplit(rawBlock) ==
  LET broken == Concat([i \in 1..Len(rawBlock) |->
                          IF rawBlock[i] \in GreekChars
                               /\ (i = 1 \/ rawBlock[i - 1] \notin GreekChars)
                            THEN << 10, rawBlock[i] >>
                            ELSE << rawBlock[i] >>])
      lines == SplitLines(broken)
  IN  JoinLines(SelectSeq([i \in 1..Len(lines) |-> trim(lines[i])], LAMBDA l : l # << >>))

\* the lines the Word-by-Word block is rebuilt as
Rebuild(rawBlock) ==
  TheOne({IF entries # << >> THEN JoinLines(entries)
          ELSE TheOne({IF parts # << >>
                         THEN JoinLines([i \in 1..Len(parts) |-> CleanPart(parts[i])])
                         ELSE ForceSplit(rawBlock) :
                       parts \in {SimpleParts(rawBlock, 1)}}) :
          entries \in {Entries(rawBlock, 1)}})

\* the block that enforces the Word-by-Word splitting: the section found by
\* wbaSectionRx and replaced by its header and the rebuilt lines (no input
\* of this model holds a "$", which the replacement would expand)
Resegment(finalText) ==
  TheOne({IF at = { } THEN finalText
          ELSE TheOne({SubSeq(finalText, 1, p - 1) \o NormalHeader(4) \o <<10>>
                         \o Rebuild(trim(SubSeq(finalText, SectionStart(4, finalText, p)[2],
                                                Len(finalText)))) :
                       p \in {Leftmost(at)}}) :
          at \in {{p \in 1..Len(finalText) : SectionStart(4, finalText, p) # << >>}}})

\* the four header replacements, from the n-th on
RECURSIVE NormalizeHeaders(_, _)
NormalizeHeaders(s, n) ==
  IF n > 4 THEN s
  ELSE TheOne({NormalizeHeaders(h, n + 1) : h \in {NormalizeHeader(n, s)}})

\* (result || "").replace(/\r\n/g, "\n").trim()
NormalizeLineBreaks(result) ==
  trim(Concat([i \in 1..Len(result) |->
                 IF result[i] = 13 /\ i < Len(result) /\ result[i + 1] = 10
                   THEN << >> ELSE << result[i] >>]))

\* the interlinear branch of getVerseAnalysis from the generator's answer
\* to finalText
InterlinearText(result) ==
  TheOne({
    TheOne({
      TheOne({
        TheOne({Resegment(cleaned) : cleaned \in {CleanParentheticals(sanitized, 1)}}) :
        sanitized \in {SanitizeSection2(headed)}}) :
      headed \in {NormalizeHeaders(normalized, 1)}}) :
    normalized \in {NormalizeLineBreaks(result)}})

(***************************************************************************)
(* services/geminiService.ts: getVerseAnalysis and the cache of analyses.  *)
(***************************************************************************)
\* map.set(key, value) of a Map held as a function
MapSet(map, key, value) ==
  [k \in DOMAIN map \cup {key} |-> IF k = key THEN value ELSE map[k]]

\* the state of the module after import: no analysis cached, no chat, no call
GeminiInit ==
  /\ verseCache = << >>
  /\ chatInstances = << >>
  /\ calls = << >>
  /\ returned = << >>

\* the values of analysisType and of language
AnalysisTypes ==
  { <<67,114,111,115,115,45,114,101,102,101,114,101,110,99,101,115>>,      \* "Cross-references"
    <<72,105,115,116,111,114,105,99,97,108,32,67,111,110,116,101,120,116>>,  \* "Historical Context"
    <<73,110,116,101,114,108,105,110,101,97,114>> }                   \* "Interlinear"

Languages == { <<69,78>>, <<84,69>> }          \* "EN", "TE"

\* `${verseRef.book}-${verseRef.chapter}-${verseRef.verse}-${analysisType}-${language}`
cacheKey(verseRef, analysisType, language) ==
  TemplateString(verseRef.book) \o <<45>> \o NumberString(verseRef.chapter) \o <<45>>
    \o NumberString(verseRef.verse) \o <<45>> \o analysisType \o <<45>> \o language

baseKeyEN(verseRef, analysisType) == cacheKey(verseRef, analysisType, <<69,78>>)

\* what safeGenerate resolves to, response being <<text>>, or << >> when the
\* request fails or the service cools down; a rejection is << >>
safeGenerate(response) ==
  IF response = << >> THEN << >> ELSE << trim(response[1]) >>

\* the most calls of getVerseAnalysis
MaxAnalyses == 3

\* the verse the analyses are asked for: John 3:16
AnalysedVerses == { [book |-> <<74,111,104,110>>, chapter |-> 3, verse |-> 16] }

\* what the generator may answer to a prompt: one text, another text laid
\* out as a Word-by-Word section, or a failure
GeneratorResponses ==
  { << >>,
    << <<32,71,111,100,32,115,111,32,108,111,118,101,100,32,116,104,101,32,119,111,114,108,100,46,10>> >>,
    << <<52,46,32,87,111,114,100,32,98,121,32,87,111,114,100,32,65,110,97,108,121,115,105,115,10,7974,957,32,40,275,110,41,32,45,32,119,97,115>> >> }

\* a call of getVerseAnalysis at its return
ReturnAnalysis(i, text) ==
  /\ calls' = [calls EXCEPT ![i].pc = "done"]
  /\ returned' = Append(returned, [call |-> i, value |-> text])

\* getVerseAnalysis(verseRef, analysisType, language) up to its first await:
\* the cached text is returned, or the generator is asked
GetVerseAnalysis ==
  /\ Len(calls) < MaxAnalyses
  /\ \E verseRef \in AnalysedVerses, analysisType \in AnalysisTypes, language \in Languages :
       \E key \in {cacheKey(verseRef, analysisType, language)} :
         IF key \in DOMAIN verseCache
           THEN /\ calls' = Append(calls, [verseRef |-> verseRef, analysisType |-> analysisType,
                                           language |-> language, seen |-> Len(returned),
                                           generated |-> FALSE, englishResult |-> << >>,
                                           pc |-> "done"])
                /\ returned' = Append(returned, [call |-> Len(calls) + 1, value |-> verseCache[key]])
                /\ UNCHANGED requests
           ELSE /\ calls' = Append(calls, [verseRef |-> verseRef, analysisType |-> analysisType,
                                           language |-> language, seen |-> Len(returned),
                                           generated |-> TRUE, englishResult |-> << >>,
                                           pc |-> "generate"])
                /\ requests' = Append(requests, [model |-> "gemini-2.5-flash-lite",
                                                 prompt |-> analysisType])
                /\ UNCHANGED returned
  /\ UNCHANGED laterVars
  /\ UNCHANGED <<parseVars, appVars, verseCache, chatInstances>>

\* the first await of a call settles: the call from there to its next await,
\* its return or its throw
GenerateSettles ==
  \E i \in 1..Len(calls) :
    /\ calls[i].pc = "generate"
    /\ \E response \in GeneratorResponses :
         \E result \in {safeGenerate(response)} :
           IF result = << >>
             THEN \* throw new Error(err?.message || "Failed to load verse analysis.")
                  /\ calls' = [calls EXCEPT ![i].pc = "threw"]
                  /\ UNCHANGED <<verseCache, returned, requests>>
           ELSE IF calls[i].analysisType = <<67,114,111,115,115,45,114,101,102,101,114,101,110,99,101,115>>
             THEN \E englishResult \in {trim(result[1])} :
                    IF calls[i].language = <<69,78>>
                      THEN /\ verseCache' =
                                MapSet(MapSet(verseCache, baseKeyEN(calls[i].verseRef, calls[i].analysisType),
                                              englishResult),
                                       cacheKey(calls[i].verseRef, calls[i].analysisType, calls[i].language),
                                       englishResult)
                           /\ ReturnAnalysis(i, englishResult)
                           /\ UNCHANGED requests
                      ELSE /\ verseCache' =
                                MapSet(verseCache, baseKeyEN(calls[i].verseRef, calls[i].analysisType),
                                       englishResult)
                           /\ calls' = [calls EXCEPT ![i].pc = "translate",
                                                     ![i].englishResult = englishResult]
                           /\ requests' = Append(requests, [model |-> "gemini-2.5-flash-lite",
                                                            prompt |-> englishResult])
                           /\ UNCHANGED returned
           ELSE \E text \in {IF calls[i].analysisType = <<73,110,116,101,114,108,105,110,101,97,114>>
                               THEN InterlinearText(result[1])
                               ELSE trim(result[1])} :
                  /\ verseCache' =
                       MapSet(MapSet(verseCache, baseKeyEN(calls[i].verseRef, calls[i].analysisType), text),
                              cacheKey(calls[i].verseRef, calls[i].analysisType, calls[i].language), text)
                  /\ ReturnAnalysis(i, text)
                  /\ UNCHANGED requests
    /\ UNCHANGED laterVars
    /\ UNCHANGED <<parseVars, appVars, chatInstances>>

\* the await of the Telugu translation of the cross-references settles
TranslateSettles ==
  \E i \in 1..Len(calls) :
    /\ calls[i].pc = "translate"
    /\ \E response \in GeneratorResponses :
         \E result \in {safeGenerate(response)} :
           IF result = << >>
             THEN /\ calls' = [calls EXCEPT ![i].pc = "threw"]
                  /\ UNCHANGED <<verseCache, returned>>
             ELSE /\ verseCache' =
                       MapSet(verseCache,
                              cacheKey(calls[i].verseRef, calls[i].analysisType, calls[i].language),
                              trim(result[1]))
                  /\ ReturnAnalysis(i, trim(result[1]))
    /\ UNCHANGED laterVars
    /\ UNCHANGED <<parseVars, appVars, chatInstances, requests>>

(***************************************************************************)
(* services/geminiService.ts: the chat.                                    *)
(***************************************************************************)
\* enum ChatMode of types.ts: the value of a mode is the name of its model
ChatMode ==
  [FAST |-> "gemini-2.5-flash-lite",
   STANDARD |-> "gemini-2.5-flash",
   DEEP_THOUGHT |-> "gemini-2.5-pro"]

\* the most messages sent to the chat
MaxMessages == 3

\* what the user asks: "Who wrote Hebrews?"
ChatMessages == { <<87,104,111,32,119,114,111,116,101,32,72,101,98,114,101,119,115,63>> }

\* what a model may answer: a text, nothing, or a failure with its message
\* ("model is overloaded", another one, none)
ChatReplies ==
  { [ok |-> TRUE, text |-> <<32,73,116,115,32,97,117,116,104,111,114,32,105,115,32,117,110,107,110,111,119,110,46,32>>],
    [ok |-> TRUE, text |-> << >>],
    [ok |-> FALSE, text |-> <<53,48,51,32,109,111,100,101,108,32,105,115,32,111,118,101,114,108,111,97,100,101,100>>],
    [ok |-> FALSE, text |-> <<52,50,57,32,113,117,111,116,97>>],
    [ok |-> FALSE, text |-> << >>] }

\* langInstr and `${message}\n\n${langInstr}`
FullPrompt(message, language) ==
  message \o <<10,10>>
    \o (IF language = <<84,69>>
          THEN <<3128,3118,3134,3111,3134,3112,3074,32,3108,3142,3122,3137,3095,3137,3122,3147,32,3079,3125,3149,3125,3074,3105,3135,46>>
          ELSE <<65,110,115,119,101,114,32,105,110,32,69,110,103,108,105,115,104,46>>)

\* getChat(mode): the Map of the chats after the call
getChat(mode) ==
  IF mode \in DOMAIN chatInstances
    THEN chatInstances
    ELSE MapSet(chatInstances, mode, [model |-> mode])

\* sendMessageToBot(message, history, mode, language) up to its await: the
\* message goes to safeGenerate or to the chat of the mode
SendMessageToBot ==
  /\ Len(calls) < MaxMessages
  /\ \E message \in ChatMessages, name \in DOMAIN ChatMode, language \in Languages :
       \E mode \in {ChatMode[name]} :
         /\ calls' = Append(calls, [message |-> message, mode |-> name, language |-> language,
                                    request |-> Len(requests) + 1, pc |-> "reply"])
         /\ IF mode = "gemini-2.5-flash" \/ mode = "gemini-2.5-flash-lite"
              THEN /\ requests' = Append(requests, [model |-> "gemini-2.5-flash-lite",
                                                    prompt |-> FullPrompt(message, language)])
                   /\ UNCHANGED chatInstances
              ELSE /\ chatInstances' = getChat(mode)
                   /\ requests' = Append(requests, [model |-> getChat(mode)[mode].model,
                                                    prompt |-> FullPrompt(message, language)])
  /\ UNCHANGED laterVars
  /\ UNCHANGED <<parseVars, appVars, verseCache, returned>>

\* s.includes(part)
includes(s, part) == IndexOf(s, part) # 0

\* the await of sendMessageToBot settles: the text of the answer is returned,
\* or the message of the failure in its place
ReplySettles ==
  \E i \in 1..Len(calls) :
    /\ calls[i].pc = "reply"
    /\ \E reply \in ChatReplies :
         returned' =
           Append(returned,
                  [call |-> i,
                   value |-> IF reply.ok
                               THEN IF ChatMode[calls[i].mode] = "gemini-2.5-pro"
                                      THEN reply.text
                                      ELSE trim(reply.text)
                             ELSE IF \/ includes(reply.text, <<109,111,100,101,108,32,105,115,32,111,118,101,114,108,111,97,100,101,100>>)
                                     \/ includes(reply.text, <<34,99,111,100,101,34,58,53,48,51>>)
                                     \/ includes(reply.text, <<85,78,65,86,65,73,76,65,66,76,69>>)
                               THEN <<84,104,101,32,65,73,32,109,111,100,101,108,32,105,115,32,111,118,101,114,108,111,97,100,101,100,46,32,84,114,121,32,115,119,105,116,99,104,105,110,103,32,109,111,100,101,108,115,46>>
                             ELSE IF /\ ChatMode[calls[i].mode] # "gemini-2.5-pro"
                                     /\ \/ includes(reply.text, <<52,50,57>>)
                                        \/ includes(reply.text, <<82,69,83,79,85,82,67,69,95,69,88,72,65,85,83,84,69,68>>)
                               THEN <<65,73,32,105,115,32,98,117,115,121,46,32,80,108,101,97,115,101,32,116,114,121,32,97,103,97,105,110,32,105,110,32,97,32,102,101,119,32,115,101,99,111,110,100,115,46>>
                             ELSE IF reply.text # << >> THEN reply.text
                             ELSE <<65,73,32,101,114,114,111,114>>])
    /\ calls' = [calls EXCEPT ![i].pc = "done"]
    /\ UNCHANGED laterVars
    /\ UNCHANGED <<parseVars, appVars, verseCache, chatInstances, requests>>

(***************************************************************************)
(* components/VerseTools.tsx: the transliteration into Telugu script.      *)
(***************************************************************************)
\* the rules of transliterateLatinToTelugu in their order: the digraphs
\* (chh, kh, ..., ny), the consonants ([bB] ... [zZ]), the long vowels and
\* diphthongs (aa, ii, uu, ai, au) and the short vowels e, o, i, u, a, which
\* match in lower case only
rules ==
  << 
     [pattern |-> <<99,104,104>>, ignoreCase |-> TRUE, replacement |-> <<3099,3149,8205>>],
     [pattern |-> <<107,104>>, ignoreCase |-> TRUE, replacement |-> <<3094>>],
     [pattern |-> <<103,104>>, ignoreCase |-> TRUE, replacement |-> <<3096>>],
     [pattern |-> <<112,104>>, ignoreCase |-> TRUE, replacement |-> <<3115>>],
     [pattern |-> <<116,104>>, ignoreCase |-> TRUE, replacement |-> <<3109>>],
     [pattern |-> <<100,104>>, ignoreCase |-> TRUE, replacement |-> <<3111>>],
     [pattern |-> <<115,104>>, ignoreCase |-> TRUE, replacement |-> <<3127>>],
     [pattern |-> <<99,104>>, ignoreCase |-> TRUE, replacement |-> <<3098>>],
     [pattern |-> <<116,115>>, ignoreCase |-> TRUE, replacement |-> <<3108,3149,3128>>],
     [pattern |-> <<110,103>>, ignoreCase |-> TRUE, replacement |-> <<3074,3095>>],
     [pattern |-> <<110,121>>, ignoreCase |-> TRUE, replacement |-> <<3112,3149,3119>>],
     [pattern |-> <<98>>, ignoreCase |-> TRUE, replacement |-> <<3116>>],
     [pattern |-> <<99>>, ignoreCase |-> TRUE, replacement |-> <<3093>>],
     [pattern |-> <<100>>, ignoreCase |-> TRUE, replacement |-> <<3110>>],
     [pattern |-> <<102>>, ignoreCase |-> TRUE, replacement |-> <<3115>>],
     [pattern |-> <<103>>, ignoreCase |-> TRUE, replacement |-> <<3095>>],
     [pattern |-> <<104>>, ignoreCase |-> TRUE, replacement |-> <<3129>>],
     [pattern |-> <<106>>, ignoreCase |-> TRUE, replacement |-> <<3100>>],
     [pattern |-> <<107>>, ignoreCase |-> TRUE, replacement |-> <<3093>>],
     [pattern |-> <<108>>, ignoreCase |-> TRUE, replacement |-> <<3122>>],
     [pattern |-> <<109>>, ignoreCase |-> TRUE, replacement |-> <<3118>>],
     [pattern |-> <<110>>, ignoreCase |-> TRUE, replacement |-> <<3112>>],
     [pattern |-> <<112>>, ignoreCase |-> TRUE, replacement |-> <<3114>>],
     [pattern |-> <<114>>, ignoreCase |-> TRUE, replacement |-> <<3120>>],
     [pattern |-> <<115>>, ignoreCase |-> TRUE, replacement |-> <<3128>>],
     [pattern |-> <<116>>, ignoreCase |-> TRUE, replacement |-> <<3108>>],
     [pattern |-> <<118>>, ignoreCase |-> TRUE, replacement |-> <<3125>>],
     [pattern |-> <<119>>, ignoreCase |-> TRUE, replacement |-> <<3125>>],
     [pattern |-> <<120>>, ignoreCase |-> TRUE, replacement |-> <<3093,3149,3128>>],
     [pattern |-> <<121>>, ignoreCase |-> TRUE, replacement |-> <<3119>>],
     [pattern |-> <<122>>, ignoreCase |-> TRUE, replacement |-> <<3100>>],
     [pattern |-> <<97,97>>, ignoreCase |-> TRUE, replacement |-> <<3134>>],
     [pattern |-> <<105,105>>, ignoreCase |-> TRUE, replacement |-> <<3136>>],
     [pattern |-> <<117,117>>, ignoreCase |-> TRUE, replacement |-> <<3138>>],
     [pattern |-> <<97,105>>, ignoreCase |-> TRUE, replacement |-> <<3144>>],
     [pattern |-> <<97,117>>, ignoreCase |-> TRUE, replacement |-> <<3148>>],
     [pattern |-> <<101>>, ignoreCase |-> FALSE, replacement |-> <<3142>>],
     [pattern |-> <<111>>, ignoreCase |-> FALSE, replacement |-> <<3146>>],
     [pattern |-> <<105>>, ignoreCase |-> FALSE, replacement |-> <<3135>>],
     [pattern |-> <<117>>, ignoreCase |-> FALSE, replacement |-> <<3137>>],
     [pattern |-> <<97>>, ignoreCase |-> FALSE, replacement |-> <<>>] >>

\* the pattern of a rule matches at position i of s
RuleMatches(rule, s, i) ==
  /\ i + Len(rule.pattern) - 1 <= Len(s)
  /\ \A k \in 1..Len(rule.pattern) :
       \/ s[i + k - 1] = rule.pattern[k]
       \/ rule.ignoreCase /\ s[i + k - 1] = rule.pattern[k] - 32

\* s.replace(rx, repl) of one rule from position i on: the matches from the
\* left, none overlapping another
RECURSIVE ReplaceRule(_, _, _)
ReplaceRule(rule, s, i) ==
  IF i > Len(s) THEN << >>
  ELSE IF RuleMatches(rule, s, i)
    THEN rule.replacement \o ReplaceRule(rule, s, i + Len(rule.pattern))
    ELSE << s[i] >> \o ReplaceRule(rule, s, i + 1)

\* for (const [rx, repl] of rules) s = s.replace(rx, repl), from rule k on
RECURSIVE ApplyRules(_, _)
ApplyRules(s, k) ==
  IF k > Len(rules) THEN s ELSE ApplyRules(ReplaceRule(rules[k], s, 1), k + 1)

\* [ాీూెొైౌ] of the last pass: the vowel signs a carrier is put before
CarriedSigns == {3134, 3136, 3138, 3142, 3146, 3144, 3148}

\* the carrier: అ
Carrier == 3077

\* s.replace(/(^|\s)[ాీూెొైౌ]/g, m => m.startsWith(" ") ? " అ" + m.trim() : "అ" + m.trim())
PrefixCarrier(s) ==
  Concat([p \in 1..Len(s) |->
            IF s[p] \in CarriedSigns /\ (p = 1 \/ IsWs(s[p - 1]))
              THEN << Carrier, s[p] >>
              ELSE IF IsWs(s[p]) /\ p < Len(s) /\ s[p + 1] \in CarriedSigns
                THEN (IF s[p] = 32 THEN << 32 >> ELSE << >>)
                ELSE << s[p] >>])

transliterateLatinToTelugu(input) ==
  IF input = << >> THEN << >>
  ELSE PrefixCarrier(trim(CollapseWs(ApplyRules(trim(input), 1))))

(***************************************************************************)
(* App.tsx: the reading view.  The selection of a book and a chapter, the  *)
(* URL hash, the load of the chapter.                                      *)
(***************************************************************************)
\* the value of a hexadecimal digit, -1 for another character
HexValue(c) ==
  IF c >= 48 /\ c <= 57 THEN c - 48
  ELSE IF c >= 65 /\ c <= 70 THEN c - 55
  ELSE IF c >= 97 /\ c <= 102 THEN c - 87
  ELSE -1

\* decodeURIComponent on ASCII: every %HH below %80 becomes its character;
\* <<text>>, or << >> for the URIError of a malformed escape (an escape of
\* %80 and above begins a UTF-8 sequence, which no hash of this model holds)
RECURSIVE decodeURIComponent(_)
decodeURIComponent(s) ==
  IF s = << >> THEN << << >> >>
  ELSE IF s[1] # 37
    THEN LET rest == decodeURIComponent(Tail(s))
         IN  IF rest = << >> THEN << >> ELSE << << s[1] >> \o rest[1] >>
  ELSE IF Len(s) < 3 \/ HexValue(s[2]) < 0 \/ HexValue(s[3]) < 0 \/ HexValue(s[2]) >= 8
    THEN << >>
  ELSE LET rest == decodeURIComponent(SubSeq(s, 4, Len(s)))
       IN  IF rest = << >> THEN << >>
           ELSE << << 16 * HexValue(s[2]) + HexValue(s[3]) >> \o rest[1] >>

\* parseInt(s, 10): white space, a sign, then the digits up to the first
\* character that is none; <<n>>, or << >> for NaN
parseIntPrefix(s) ==
  LET from == SkipWs(s, 1)
      signed == from <= Len(s) /\ s[from] \in {43, 45}
      first == IF signed THEN from + 1 ELSE from
      last == SkipDigits(s, first)
  IN  IF first > Len(s) \/ last = first THEN << >>
      ELSE << (IF signed /\ s[from] = 45 THEN -1 ELSE 1) * parseInt(SubSeq(s, first, last - 1)) >>

\* s.split("/")
RECURSIVE splitOnSlash(_)
splitOnSlash(s) ==
  LET at == {i \in 1..Len(s) : s[i] = 47}
  IN  IF at = { } THEN << s >>
      ELSE << SubSeq(s, 1, Leftmost(at) - 1) >> \o splitOnSlash(SubSeq(s, Leftmost(at) + 1, Len(s)))

\* the hash of a Supabase OAuth callback
IsOAuthHash(hash) ==
  \/ startsWith(hash, <<35,97,99,99,101,115,115,95,116,111,107,101,110>>)
  \/ IndexOf(hash, <<97,99,99,101,115,115,95,116,111,107,101,110,61>>) # 0
  \/ IndexOf(hash, <<114,101,102,114,101,115,104,95,116,111,107,101,110,61>>) # 0

\* what parseHashAndSetState reads in a hash: [kind |-> "ignored"] for an
\* OAuth hash, "invalid" when it returns before the selection, "throw" when
\* decodeURIComponent or findBookMetadata throws, or the selection
parseHash(hash) ==
  IF IsOAuthHash(hash) THEN [kind |-> "ignored"]
  ELSE LET stripped == IF startsWith(hash, <<35,47>>) THEN SubSeq(hash, 3, Len(hash))
                       ELSE IF startsWith(hash, <<35>>) THEN SubSeq(hash, 2, Len(hash))
                       ELSE hash
           parts == splitOnSlash(stripped)
       IN  IF Len(parts) < 2 \/ parts[1] = << >> THEN [kind |-> "invalid"]
           ELSE LET bookName == decodeURIComponent([i \in 1..Len(parts[1]) |->
                                                      IF parts[1][i] = 43 THEN 32 ELSE parts[1][i]])
                    chapterNum == parseIntPrefix(parts[2])
                    verseNum == IF Len(parts) >= 3 /\ parts[3] # << >>
                                  THEN parseIntPrefix(parts[3]) ELSE << >>
                    bookMeta == IF bookName = << >> THEN [kind |-> "throw"]
                                ELSE findBookMetadata(bookName[1])
                IN  IF bookMeta.kind = "throw" THEN [kind |-> "throw"]
                    ELSE IF \/ bookMeta.kind = "null"
                            \/ chapterNum = << >>
                            \/ chapterNum[1] < 1
                            \/ chapterNum[1] > bookMeta.chapters
                      THEN [kind |-> "invalid"]
                    ELSE [kind |-> "selection", book |-> bookMeta.name, chapter |-> chapterNum[1],
                          verse |-> IF verseNum # << >> /\ verseNum[1] # 0 THEN verseNum ELSE << >>]

\* the hashes the address bar is given: chapters and verses that exist and
\* that do not, an abbreviation, escapes, a book no table knows, the name
\* "constructor", an OAuth callback, hashes with parts missing, a hash the
\* page wrote itself
HashInputs ==
  { <<35,47,83,111,110,103,37,50,48,111,102,37,50,48,83,111,108,111,109,111,110,47,56>>, \* "#/Song%20of%20Solomon/8"
    <<35,47,74,111,104,110,47,51>>,                             \* "#/John/3"
    <<35,47,74,111,104,110,47,51,47,49,54>>,                    \* "#/John/3/16"
    <<35,47,74,111,104,110,47,50,50>>,                          \* "#/John/22"
    <<35,47,82,101,118,101,108,97,116,105,111,110,47,50,50>>,   \* "#/Revelation/22"
    <<35,47,71,101,110,101,115,105,115,47,48>>,                 \* "#/Genesis/0"
    <<35,47,74,110,47,51,97,98,99>>,                            \* "#/Jn/3abc"
    <<35,47,49,37,50,48,74,111,104,110,47,53>>,                 \* "#/1%20John/5"
    <<35,47,49,43,74,111,104,110,47,53,47,48>>,                 \* "#/1+John/5/0"
    <<35,47,88,121,122,47,49>>,                                 \* "#/Xyz/1"
    <<35,47,99,111,110,115,116,114,117,99,116,111,114,47,49>>,  \* "#/constructor/1"
    <<35,97,99,99,101,115,115,95,116,111,107,101,110,61,97,98,99>>,\* "#access_token=abc"
    <<35,47,74,111,104,110>>,                                   \* "#/John"
    <<35,74,111,104,110,47,51>>,                                \* "#John/3"
    <<35,47,37,47,49>>,                                         \* "#/%/1"
    <<35,47,74,111,104,110,47,45,49>>,                          \* "#/John/-1"
    <<35,47,32,47,51>>,                                         \* "#/ /3"
    <<35,47,79,98,97,100,105,97,104,47,49,47,45,50>>            \* "#/Obadiah/1/-2"
  }

\* the state after construction: nothing loaded, no effect run yet, the modal
\* of the navigation pane closed
ReaderInit ==
  /\ verses = << >>
  /\ verseError = << >>
  /\ isLoadingVerses = FALSE
  /\ loads = { }
  /\ started = 0
  /\ effectDeps = << >>
  /\ isModalOpen = FALSE
  /\ tempBook = <<71,101,110,101,115,105,115>>
  /\ selectionStep = "BOOK"
  /\ hashReadings = {parseHash(hash) : hash \in HashInputs}

\* parseHashAndSetState(hash), from what it read in the hash
parseHashAndSetState(read) ==
  /\ isSearchView' = IF read.kind = "ignored" THEN isSearchView ELSE FALSE
  /\ IF read.kind = "selection"
       THEN /\ selectedBook' = read.book
            /\ selectedChapter' = read.chapter
            /\ selectedVerseRef' = IF read.verse # << >>
                                     THEN << [book |-> read.book, chapter |-> read.chapter,
                                              verse |-> read.verse[1]] >>
                                     ELSE << >>
       ELSE UNCHANGED <<selectedBook, selectedChapter, selectedVerseRef>>

\* window "hashchange": parseHashAndSetState(window.location.hash)
HandleHashChange ==
  /\ \E read \in hashReadings : parseHashAndSetState(read)
  /\ UNCHANGED <<searchQuery, searchError, isSearching, searchResults, pc, outcome, searches>>
  /\ UNCHANGED <<parseVars, requests, geminiVars, laterVars>>

\* the index of a book in BIBLE_META: findIndex, 0 when no book has the name
BookIndex(name) == FirstBook({i \in 1..Len(BIBLE_META) : BIBLE_META[i].name = name})

\* what no handler of the selection touches
NavigationFrame ==
  /\ UNCHANGED <<searchQuery, searchError, isSearchView, isSearching, searchResults, pc,
                 outcome, searches>>
  /\ UNCHANGED <<parseVars, requests, geminiVars, loadVars, hashReadings, afterReader>>

\* handleBookChange without its setSelectedChapter(1)
handleBookChangeKeepingChapter(book) ==
  /\ selectedBook' = book
  /\ selectedVerseRef' = << >>
  /\ UNCHANGED selectedChapter

\* handleBookChange(book)
handleBookChange(book) ==
  /\ selectedBook' = book
  /\ selectedChapter' = 1
  /\ selectedVerseRef' = << >>

\* handleChapterChange(chapter)
handleChapterChange(chapter) ==
  /\ selectedChapter' = chapter
  /\ selectedVerseRef' = << >>
  /\ UNCHANGED selectedBook

\* handleNextChapter: the next chapter of the book, the first chapter of the
\* next book after the last one, nothing after the last chapter of the last book
HandleNextChapter ==
  /\ LET currentBookIndex == BookIndex(selectedBook)
     IN  IF currentBookIndex = 0
           THEN UNCHANGED <<selectedBook, selectedChapter, selectedVerseRef>>
         ELSE IF selectedChapter < BIBLE_META[currentBookIndex].chapters
           THEN handleChapterChange(selectedChapter + 1)
         ELSE IF currentBookIndex < Len(BIBLE_META)
           THEN handleBookChange(BIBLE_META[currentBookIndex + 1].name)
         ELSE UNCHANGED <<selectedBook, selectedChapter, selectedVerseRef>>
  /\ UNCHANGED modalVars
  /\ NavigationFrame

\* handlePreviousChapter: the chapter before, the last chapter of the book
\* before at a first chapter, nothing at the first chapter of the first book
HandlePreviousChapter ==
  /\ LET currentBookIndex == BookIndex(selectedBook)
     IN  IF selectedChapter > 1
           THEN handleChapterChange(selectedChapter - 1)
         ELSE IF currentBookIndex > 1
           THEN /\ selectedBook' = BIBLE_META[currentBookIndex - 1].name
                /\ selectedChapter' = BIBLE_META[currentBookIndex - 1].chapters
                /\ selectedVerseRef' = << >>
         ELSE UNCHANGED <<selectedBook, selectedChapter, selectedVerseRef>>
  /\ UNCHANGED modalVars
  /\ NavigationFrame

\* NavigationPane, handleOpenModal
HandleOpenModal ==
  /\ ~isModalOpen
  /\ tempBook' = selectedBook
  /\ selectionStep' = "BOOK"
  /\ isModalOpen' = TRUE
  /\ UNCHANGED <<selectedBook, selectedChapter, selectedVerseRef>>
  /\ NavigationFrame

\* the books picked in the modal: one of a few chapters, one of one
ModalBooks ==
  { <<82,117,116,104>>,                              \* "Ruth"
    <<79,98,97,100,105,97,104>>,                     \* "Obadiah"
    <<74,117,100,101>> }                             \* "Jude"

\* NavigationPane, handleBookSelect(book): a button of the list of the books
HandleBookSelect ==
  /\ isModalOpen
  /\ selectionStep = "BOOK"
  /\ \E book \in ModalBooks \cap BookNames : tempBook' = book
  /\ selectionStep' = "CHAPTER"
  /\ UNCHANGED <<isModalOpen, selectedBook, selectedChapter, selectedVerseRef>>
  /\ NavigationFrame

\* tempChapterCount: the chapters of the book picked, 0 for no book
tempChapterCount ==
  IF BookIndex(tempBook) = 0 THEN 0 ELSE BIBLE_META[BookIndex(tempBook)].chapters

\* NavigationPane, handleChapterSelect(chapter): a button of the grid of the
\* chapters 1..tempChapterCount; onBookChange(tempBook), then
\* onChapterChange(chapter), whose chapter is the one that stays
HandleChapterSelect ==
  /\ isModalOpen
  /\ selectionStep = "CHAPTER"
  /\ \E chapter \in 1..tempChapterCount :
       /\ selectedBook' = tempBook
       /\ selectedChapter' = chapter
       /\ selectedVerseRef' = << >>
  /\ isModalOpen' = FALSE
  /\ UNCHANGED <<tempBook, selectionStep>>
  /\ NavigationFrame

\* the dependencies of the effect that loads the chapter
LoadDeps == [book |-> selectedBook, chapter |-> selectedChapter, isSearchView |-> isSearchView]

\* every effect whose dependencies changed has run
EffectsFlushed == effectDeps = << LoadDeps >>

\* the effect of [selectedBook, selectedChapter, isSearchView], after the
\* first render and after every render that changed one of them: nothing in
\* the search view, else loadVerses up to the await of fetchChapter
LoadVersesEffect ==
  /\ ~EffectsFlushed
  /\ effectDeps' = << LoadDeps >>
  /\ IF isSearchView
       THEN UNCHANGED <<isLoadingVerses, verseError, loads, started>>
       ELSE /\ isLoadingVerses' = TRUE
            /\ verseError' = << >>
            /\ started' = started + 1
            /\ loads' = loads \cup {[id |-> started + 1, book |-> selectedBook,
                                     chapter |-> selectedChapter]}
  /\ UNCHANGED <<verses, modalVars, hashReadings, afterReader>>
  /\ UNCHANGED <<parseVars, appVars, requests, geminiVars>>

FailedToLoadChapter ==
  <<70,97,105,108,101,100,32,116,111,32,108,111,97,100,32,99,104,97,112,116,101,114,46>>

\* await fetchChapter(selectedBook, selectedChapter) settles, for any of the
\* calls in flight: the verses of the chapter that call asked for, or the
\* rejection; then the finally
LoadSettles ==
  /\ \E load \in loads :
       /\ loads' = loads \ {load}
       /\ \/ /\ verses' = << [book |-> load.book, chapter |-> load.chapter] >>
             /\ UNCHANGED verseError
          \/ /\ verseError' = FailedToLoadChapter
             /\ verses' = << >>
  /\ isLoadingVerses' = FALSE
  /\ UNCHANGED <<started, effectDeps, modalVars, hashReadings, afterReader>>
  /\ UNCHANGED <<parseVars, appVars, requests, geminiVars>>

(***************************************************************************)
(* services/geminiService.ts: safeGenerate, its throttle and its cooldown. *)
(* Time is Date.now() in milliseconds; it passes in steps of Tick.         *)
(***************************************************************************)
\* const MIN_GAP = 1500
MIN_GAP == 1500

\* the cooldown after a rate-limit failure: Date.now() + 4000
Cooldown == 4000

\* the step of the clock
Tick == 500

\* the module is loaded with both variables 0, long after the epoch: the
\* first call has no gap to wait for
ThrottleInit ==
  /\ clock = MIN_GAP
  /\ lastCall = 0
  /\ globalCooldownUntil = 0
  /\ runs = << >>
  /\ settled = [caught |-> << >>, value |-> << >>]
  /\ log = [sent |-> 0, request |-> << >>, limited |-> << >>, onlyLimited |-> << >>]

CoolingDownPrefix == <<65,73,32,99,111,111,108,105,110,103,32,100,111,119,110,46,32,84,114,121,32,97,103,97,105,110,32,105,110,32>>
OverloadedMessage == <<84,104,101,32,65,73,32,109,111,100,101,108,32,105,115,32,111,118,101,114,108,111,97,100,101,100,46,32,80,108,101,97,115,101,32,115,119,105,116,99,104,32,109,111,100,101,108,115,46>>
BusyMessage == <<65,73,32,105,115,32,98,117,115,121,46,32,80,108,101,97,115,101,32,116,114,121,32,97,103,97,105,110,32,105,110,32,97,32,102,101,119,32,115,101,99,111,110,100,115,46>>

\* `AI cooling down. Try again in ${secs}s.` with secs = Math.ceil(ms / 1000)
CoolingDownMessage(ms) ==
  CoolingDownPrefix \o NumberString((ms + 999) \div 1000) \o <<115,46>>

\* safeGenerate without the check of the cooldown
PassTheGapUnchecked(all, run) ==
  /\ lastCall' = clock
  /\ runs' = [all EXCEPT ![run] = [pc |-> "generateContent", wake |-> 0]]
  /\ log' = [log EXCEPT !.sent = @ + 1, !.request = << clock >>]
  /\ UNCHANGED <<globalCooldownUntil, settled>>

\* safeGenerate from `lastCall = Date.now()` to the await of generateContent:
\* the check of the cooldown, then the request; run is the call, among all
PassTheGap(all, run) ==
  /\ lastCall' = clock
  /\ IF clock < globalCooldownUntil
       THEN /\ runs' = [all EXCEPT ![run] = [pc |-> "threw", wake |-> 0]]
            /\ settled' = [caught |-> << >>,
                           value |-> CoolingDownMessage(globalCooldownUntil - clock)]
            /\ UNCHANGED log
       ELSE /\ runs' = [all EXCEPT ![run] = [pc |-> "generateContent", wake |-> 0]]
            /\ log' = [log EXCEPT !.sent = @ + 1, !.request = << clock >>]
            /\ UNCHANGED settled
  /\ UNCHANGED globalCooldownUntil

\* the most calls of safeGenerate
MaxRuns == 3

\* a call of safeGenerate, up to its first await or its throw
SafeGenerateCalled ==
  /\ Len(runs) < MaxRuns
  /\ LET wait == lastCall + MIN_GAP - clock
     IN  IF wait > 0
           THEN /\ runs' = Append(runs, [pc |-> "setTimeout", wake |-> clock + wait])
                /\ UNCHANGED <<lastCall, globalCooldownUntil, log, settled>>
           ELSE PassTheGap(Append(runs, [pc |-> "called", wake |-> 0]),
                           Len(runs) + 1)
  /\ UNCHANGED clock
  /\ UNCHANGED besideThrottle

\* the timer of a waiting call fires, at the time it was set for or later
GapTimerFires ==
  /\ \E run \in 1..Len(runs) :
       /\ runs[run].pc = "setTimeout"
       /\ clock >= runs[run].wake
       /\ PassTheGap(runs, run)
  /\ UNCHANGED clock
  /\ UNCHANGED besideThrottle

\* the messages of the failures of the generator: of a rate limit, of an
\* overloaded model, of both at once, of neither, and a failure without message
FailureMessages ==
  { <<103,111,116,32,115,116,97,116,117,115,58,32,52,50,57>>,        \* got status: 429
    <<82,69,83,79,85,82,67,69,95,69,88,72,65,85,83,84,69,68>>,        \* RESOURCE_EXHAUSTED
    <<123,34,99,111,100,101,34,58,53,48,51,125>>,        \* {"code":503}
    <<84,104,101,32,109,111,100,101,108,32,105,115,32,111,118,101,114,108,111,97,100,101,100,46>>,        \* The model is overloaded.
    <<85,78,65,86,65,73,76,65,66,76,69,44,32,114,101,116,114,121,32,105,110,32,52,50,57,32,109,115>>,       \* UNAVAILABLE, retry in 429 ms
    <<70,97,105,108,101,100,32,116,111,32,102,101,116,99,104>>,        \* Failed to fetch
    Undefined }

\* the failure is one of an overloaded model
IsOverloaded(text) ==
  \/ includes(text, <<34,99,111,100,101,34,58,53,48,51>>)
  \/ includes(text, <<109,111,100,101,108,32,105,115,32,111,118,101,114,108,111,97,100,101,100>>)
  \/ includes(text, <<85,78,65,86,65,73,76,65,66,76,69>>)

\* the failure is one of a rate limit
IsRateLimited(text) ==
  \/ includes(text, <<52,50,57>>)
  \/ includes(text, <<82,69,83,79,85,82,67,69,95,69,88,72,65,85,83,84,69,68>>)

\* the catch of safeGenerate with the overloaded branch after the rate-limit
\* branch
CatchRateLimitFirst(run, message) ==
  LET text == IF Truthy(message) THEN message ELSE << >>
  IN  IF IsRateLimited(text)
        THEN /\ lastCall' = clock + Cooldown
             /\ globalCooldownUntil' = clock + Cooldown
             /\ runs' = [runs EXCEPT ![run] = [pc |-> "threw", wake |-> 0]]
           /\ settled' = [caught |-> message, value |-> BusyMessage]
      ELSE IF IsOverloaded(text)
        THEN /\ runs' = [runs EXCEPT ![run] = [pc |-> "threw", wake |-> 0]]
           /\ settled' = [caught |-> message, value |-> OverloadedMessage]
             /\ UNCHANGED <<lastCall, globalCooldownUntil>>
      ELSE /\ runs' = [runs EXCEPT ![run] = [pc |-> "threw", wake |-> 0]]
           /\ settled' = [caught |-> message, value |-> message]
           /\ UNCHANGED <<lastCall, globalCooldownUntil>>

\* the catch of safeGenerate; message is err.message of what was caught, and
\* the value settled the message of what safeGenerate throws
Catch(run, message) ==
  LET text == IF Truthy(message) THEN message ELSE << >>
  IN  IF IsOverloaded(text)
        THEN /\ runs' = [runs EXCEPT ![run] = [pc |-> "threw", wake |-> 0]]
           /\ settled' = [caught |-> message, value |-> OverloadedMessage]
             /\ UNCHANGED <<lastCall, globalCooldownUntil>>
      ELSE IF IsRateLimited(text)
        THEN /\ lastCall' = clock + Cooldown
             /\ globalCooldownUntil' = clock + Cooldown
             /\ runs' = [runs EXCEPT ![run] = [pc |-> "threw", wake |-> 0]]
           /\ settled' = [caught |-> message, value |-> BusyMessage]
      ELSE /\ runs' = [runs EXCEPT ![run] = [pc |-> "threw", wake |-> 0]]
           /\ settled' = [caught |-> message, value |-> message]
           /\ UNCHANGED <<lastCall, globalCooldownUntil>>

\* the log after a failure of this message: the time of the last failure
\* whose message names a rate limit, and of the last whose message names a
\* rate limit and no overloaded model
Failed(message) ==
  LET text == IF Truthy(message) THEN message ELSE << >>
  IN  [log EXCEPT !.limited = IF IsRateLimited(text) THEN << clock >> ELSE @,
                  !.onlyLimited = IF IsRateLimited(text) /\ ~IsOverloaded(text)
                                    THEN << clock >> ELSE @]

\* await generateContent(...) settles with a failure
GenerateContentFails ==
  /\ \E run \in 1..Len(runs) :
       /\ runs[run].pc = "generateContent"
       /\ \E message \in FailureMessages :
            /\ Catch(run, message)
            /\ log' = Failed(message)
  /\ UNCHANGED clock
  /\ UNCHANGED besideThrottle

\* await generateContent(...) settles with a response: its text, trimmed
GenerateContentAnswers ==
  /\ \E run \in 1..Len(runs) :
       /\ runs[run].pc = "generateContent"
       /\ runs' = [runs EXCEPT ![run] = [pc |-> "returned", wake |-> 0]]
       /\ settled' = [caught |-> << >>, value |-> trim(<<32,79,75>>)]
  /\ UNCHANGED <<clock, lastCall, globalCooldownUntil, log>>
  /\ UNCHANGED besideThrottle

\* how many steps of the clock are watched
MaxTicks == 8

\* time passes
TimePasses ==
  /\ clock < MIN_GAP + MaxTicks * Tick
  /\ clock' = clock + Tick
  /\ UNCHANGED <<lastCall, globalCooldownUntil, runs, log, settled>>
  /\ UNCHANGED besideThrottle

\* ---------------------------------------------------------------------------
\* components/VerseTools.tsx: the tabs of a verse, their loads and the
\* loading flag.  A render commits its three effects together, in source
\* order; each reads the state of the render it belongs to.
\* ---------------------------------------------------------------------------
Tabs == {"Interlinear", "Cross-references", "Historical Context", "Notes"}

ToolLanguages == {"EN", "TE"}

VerseIds == {16, 17}

NullAnalysis == [tab \in Tabs |-> << >>]

ToolsInit ==
  /\ activeTab = "Historical Context"
  /\ toolLanguage = "EN"
  /\ verseId = 16
  /\ analysis = NullAnalysis
  /\ analysisChanged = FALSE
  /\ loading = FALSE
  /\ errorMsg = ""
  /\ toolLoads = {}
  /\ toolStarted = 0
  /\ toolDeps = << >>

ToolDeps == [tab |-> activeTab, lang |-> toolLanguage, verse |-> verseId]

\* nothing is left for React to run: the last commit saw this very state
ToolsFlushed == toolDeps = << ToolDeps >> /\ ~analysisChanged

ToolsFrame == UNCHANGED besideTools

\* onClick={() => setActiveTab(tab)}
SelectTab ==
  \E tab \in Tabs :
    /\ tab # activeTab
    /\ activeTab' = tab
    /\ UNCHANGED <<toolLanguage, verseId, analysis, analysisChanged, loading, errorMsg,
                   toolLoads, toolStarted, toolDeps>>
    /\ ToolsFrame

\* setLanguage((l) => (l === "EN" ? "TE" : "EN"))
ToggleLanguage ==
  /\ toolLanguage' = (IF toolLanguage = "EN" THEN "TE" ELSE "EN")
  /\ UNCHANGED <<activeTab, verseId, analysis, analysisChanged, loading, errorMsg,
                 toolLoads, toolStarted, toolDeps>>
  /\ ToolsFrame

\* the parent hands another verseRef to the component
VerseRefChanges ==
  \E id \in VerseIds :
    /\ id # verseId
    /\ verseId' = id
    /\ UNCHANGED <<activeTab, toolLanguage, analysis, analysisChanged, loading, errorMsg,
                   toolLoads, toolStarted, toolDeps>>
    /\ ToolsFrame

\* the reset effect, on [verseRef, userNotes]
ResetRuns == toolDeps = << >> \/ toolDeps[1].verse # verseId

\* the invalidation effect, on [language, activeTab, verseId]
InvalidationRuns == toolDeps # << ToolDeps >>

\* the load effect, on [activeTab, verseId, language, loadTab, analysis]
LoadEffectRuns == InvalidationRuns \/ analysisChanged

\* if (activeTab === "Notes") return; if (analysis[activeTab] != null) return;
LoadEffectStarts == activeTab # "Notes" /\ analysis[activeTab] = << >>

\* return () => { cancelled = true; }
Cleanup(all) == {[run EXCEPT !.cancelled = TRUE] : run \in all}

AfterReset(record) ==
  IF ResetRuns THEN [NullAnalysis EXCEPT !["Notes"] = << "userNotes" >>] ELSE record

AfterInvalidation(record) ==
  IF InvalidationRuns THEN [record EXCEPT ![activeTab] = << >>] ELSE record

VerseToolsEffects ==
  /\ ~ToolsFlushed
  /\ toolDeps' = << ToolDeps >>
  /\ analysis' = AfterInvalidation(AfterReset(analysis))
  /\ analysisChanged' = (ResetRuns \/ InvalidationRuns)
  /\ activeTab' = (IF ResetRuns THEN "Historical Context" ELSE activeTab)
  /\ IF LoadEffectRuns /\ LoadEffectStarts
       THEN /\ loading' = TRUE
            /\ errorMsg' = ""
            /\ toolStarted' = toolStarted + 1
            /\ toolLoads' = Cleanup(toolLoads) \cup
                 {[id |-> toolStarted + 1, tab |-> activeTab, cancelled |-> FALSE]}
       ELSE /\ errorMsg' = (IF ResetRuns THEN "" ELSE errorMsg)
            /\ toolLoads' = (IF LoadEffectRuns THEN Cleanup(toolLoads) ELSE toolLoads)
            /\ UNCHANGED <<loading, toolStarted>>
  /\ UNCHANGED <<toolLanguage, verseId>>
  /\ ToolsFrame

\* what loadTab resolves to: the text, or "" after setErrorMsg(...)
LoadTabResults == {"text", ""}

LoadErrorMessage == "Failed to load content."

\* const text = await loadTab(activeTab); if (!cancelled) { ... }
LoadTabSettles ==
  \E run \in toolLoads, text \in LoadTabResults :
    /\ toolLoads' = toolLoads \ {run}
    /\ errorMsg' = (IF text = "" THEN LoadErrorMessage ELSE errorMsg)
    /\ IF run.cancelled
         THEN UNCHANGED <<analysis, analysisChanged, loading>>
         ELSE /\ analysis' = [analysis EXCEPT ![run.tab] = << text >>]
              /\ analysisChanged' = TRUE
              /\ loading' = FALSE
    /\ UNCHANGED <<activeTab, toolLanguage, verseId, toolStarted, toolDeps>>
    /\ ToolsFrame

\* loading ? <LoadingSkeleton /> : activeTab === "Notes" ? <textarea> : ...
Shown ==
  IF loading THEN "LoadingSkeleton"
  ELSE IF activeTab = "Notes" THEN "textarea"
  ELSE IF errorMsg # "" THEN "error"
  ELSE "ReactMarkdown"

\* ---------------------------------------------------------------------------
\* context/AuthContext.tsx, hooks/useHighlights.ts, lib/highlightService.ts:
\* the highlights of the chapter on the page.  The table of the highlights
\* is the set of its rows; a request is served by the table at one moment
\* and its answer reaches the hook at a later one.
\* ---------------------------------------------------------------------------
UserIds == {"u1", "u2"}

\* the chapters of Genesis the reader moves between
HlChapters == {1, 2}

HlVerses == {16}

Colors == {"yellow"}

EmptyHighlights == [verse \in HlVerses |-> << >>]

SeededRows == {[user_id |-> "u1", book |-> <<71,101,110,101,115,105,115>>, chapter |-> 1,
                verse |-> 16, color |-> "green"]}

HighlightsInit ==
  /\ user = << >>
  /\ highlights = EmptyHighlights
  /\ hlLoading = FALSE
  /\ hlError = << >>
  /\ requestIdRef = 0
  /\ hlRequests = {}
  /\ stored = SeededRows
  /\ applied = << >>
  /\ hlDeps = << >>

\* supabase.auth.onAuthStateChange((_event, session) => setUser(session?.user ?? null))
AuthStateChanges ==
  \E session \in {<< >>} \cup {<< id >> : id \in UserIds} :
    /\ session # user
    /\ user' = session
    /\ UNCHANGED <<highlightVars, notesVars>>
    /\ UNCHANGED besideAccount

HlDeps == [userId |-> user, book |-> selectedBook, chapter |-> selectedChapter]

HighlightsFlushed == hlDeps = << HlDeps >>

\* select * from highlights where user_id, book and chapter are the given ones
RowsOf(table, userId, book, chapter) ==
  {row \in table : row.user_id = userId /\ row.book = book /\ row.chapter = chapter}

\* for (const r of rows) map[r.verse] = r.color
MapOfRows(rows) ==
  [verse \in HlVerses |->
     IF \E row \in rows : row.verse = verse
       THEN << (CHOOSE row \in rows : row.verse = verse).color >>
       ELSE << >>]

\* return () => { cancelled = true; }
CancelLoads(all) ==
  {IF req.kind = "getHighlights" THEN [req EXCEPT !.cancelled = TRUE] ELSE req : req \in all}

\* useEffect(() => { ... }, [userId, book, chapter])
HighlightsEffect ==
  /\ ~HighlightsFlushed
  /\ hlDeps' = << HlDeps >>
  /\ IF user = << >>
       THEN /\ highlights' = EmptyHighlights
            /\ applied' = << >>
            /\ hlRequests' = CancelLoads(hlRequests)
            /\ UNCHANGED <<hlLoading, hlError, requestIdRef>>
       ELSE /\ requestIdRef' = requestIdRef + 1
            /\ hlLoading' = TRUE
            /\ hlError' = << >>
            /\ hlRequests' = CancelLoads(hlRequests) \cup
                 {[kind |-> "getHighlights", userId |-> user[1], book |-> selectedBook,
                   chapter |-> selectedChapter, currentReqId |-> requestIdRef + 1,
                   cancelled |-> FALSE, rows |-> << >>]}
            /\ UNCHANGED <<highlights, applied>>
  /\ UNCHANGED <<user, stored, notesVars>>
  /\ UNCHANGED besideAccount

\* the table answers a getHighlights with the rows it holds at that moment
GetHighlightsServed ==
  \E req \in hlRequests :
    /\ req.kind = "getHighlights"
    /\ req.rows = << >>
    /\ hlRequests' = (hlRequests \ {req}) \cup
         {[req EXCEPT !.rows = << RowsOf(stored, req.userId, req.book, req.chapter) >>]}
    /\ UNCHANGED <<user, highlights, hlLoading, hlError, requestIdRef, stored, applied, hlDeps, notesVars>>
    /\ UNCHANGED besideAccount

\* the mutant of Superseded: only the request id is looked at
SupersededByIdOnly(req) == req.currentReqId # requestIdRef

\* if (cancelled || currentReqId !== requestIdRef.current) return;
Superseded(req) == req.cancelled \/ req.currentReqId # requestIdRef

\* const rows = await getHighlights(userId, book, chapter); ... setHighlights(map)
GetHighlightsResolves ==
  \E req \in hlRequests :
    /\ req.kind = "getHighlights"
    /\ req.rows # << >>
    /\ hlRequests' = hlRequests \ {req}
    /\ IF Superseded(req)
         THEN UNCHANGED <<highlights, applied>>
         ELSE /\ highlights' = MapOfRows(req.rows[1])
              /\ applied' = << [userId |-> req.userId, book |-> req.book, chapter |-> req.chapter,
                                currentReqId |-> req.currentReqId] >>
    /\ hlLoading' = (IF ~req.cancelled /\ req.currentReqId = requestIdRef THEN FALSE ELSE hlLoading)
    /\ UNCHANGED <<user, hlError, requestIdRef, stored, hlDeps, notesVars>>
    /\ UNCHANGED besideAccount

FailedToLoadHighlights == "Failed to load highlights"

\* catch (err) { if (!cancelled) setError(...) } finally { ... setLoading(false) }
GetHighlightsRejects ==
  \E req \in hlRequests :
    /\ req.kind = "getHighlights"
    /\ req.rows = << >>
    /\ hlRequests' = hlRequests \ {req}
    /\ hlError' = (IF ~req.cancelled THEN << FailedToLoadHighlights >> ELSE hlError)
    /\ hlLoading' = (IF ~req.cancelled /\ req.currentReqId = requestIdRef THEN FALSE ELSE hlLoading)
    /\ UNCHANGED <<user, highlights, requestIdRef, stored, applied, hlDeps, notesVars>>
    /\ UNCHANGED besideAccount

\* toggleHighlight(verse, color); color is "" where the source passes null
toggleHighlight(verse, color) ==
  IF user = << >>
    THEN UNCHANGED <<highlights, hlRequests>>
    ELSE IF color = "" \/ highlights[verse] = << color >>
      THEN /\ highlights' = [highlights EXCEPT ![verse] = << >>]
           /\ hlRequests' = hlRequests \cup
                {[kind |-> "deleteHighlight", userId |-> user[1], book |-> selectedBook,
                  chapter |-> selectedChapter, verse |-> verse, color |-> ""]}
      ELSE /\ highlights' = [highlights EXCEPT ![verse] = << color >>]
           /\ hlRequests' = hlRequests \cup
                {[kind |-> "upsertHighlight", userId |-> user[1], book |-> selectedBook,
                  chapter |-> selectedChapter, verse |-> verse, color |-> color]}

ToggleHighlight ==
  \E verse \in HlVerses, color \in Colors \cup {""} :
    /\ toggleHighlight(verse, color)
    /\ UNCHANGED <<user, hlLoading, hlError, requestIdRef, stored, applied, hlDeps, notesVars>>
    /\ UNCHANGED besideAccount

SameVerse(row, req) ==
  /\ row.user_id = req.userId
  /\ row.book = req.book
  /\ row.chapter = req.chapter
  /\ row.verse = req.verse

\* upsert(..., { onConflict: "user_id,book,chapter,verse" }) and delete().eq(...)
HighlightWritten ==
  \E req \in hlRequests :
    /\ req.kind \in {"upsertHighlight", "deleteHighlight"}
    /\ hlRequests' = hlRequests \ {req}
    /\ stored' = {row \in stored : ~SameVerse(row, req)} \cup
         (IF req.kind = "upsertHighlight"
            THEN {[user_id |-> req.userId, book |-> req.book, chapter |-> req.chapter,
                   verse |-> req.verse, color |-> req.color]}
            ELSE {})
    /\ UNCHANGED <<user, highlights, hlLoading, hlError, requestIdRef, applied, hlDeps, notesVars>>
    /\ UNCHANGED besideAccount

\* ---------------------------------------------------------------------------
\* context/NotesContext.tsx: the notes of the signed-in user.  A note is
\* known here by the user it belongs to and the verse it is written on.
\* ---------------------------------------------------------------------------
NoteVerses == {16, 17}

\* what getAllNotesForUser(userId) answers: select * from notes where user_id = userId
NotesOfUser(userId) == {[user_id |-> userId, verse |-> verse] : verse \in NoteVerses}

\* for (const n of notes) map[buildVerseKey(n)] = n
MapOfNotes(notes) == notes

NotesInit ==
  /\ notesByKey = {}
  /\ notesLoading = FALSE
  /\ noteLoads = << >>
  /\ notesDeps = << >>

NotesFlushed == notesDeps = << user >>

\* useEffect(() => { if (!userId) { setNotes({}); return; } load(); }, [userId])
NotesEffect ==
  /\ ~NotesFlushed
  /\ notesDeps' = << user >>
  /\ IF user = << >>
       THEN /\ notesByKey' = {}
            /\ UNCHANGED <<notesLoading, noteLoads>>
       ELSE /\ notesLoading' = TRUE
            /\ noteLoads' = Append(noteLoads, user[1])
            /\ UNCHANGED notesByKey
  /\ UNCHANGED <<user, highlightVars>>
  /\ UNCHANGED besideAccount

\* const notes = await getAllNotesForUser(userId); ... setNotes(map); setLoading(false)
GetAllNotesResolves ==
  \E i \in 1..Len(noteLoads) :
    /\ noteLoads' = SubSeq(noteLoads, 1, i - 1) \o SubSeq(noteLoads, i + 1, Len(noteLoads))
    /\ notesByKey' = MapOfNotes(NotesOfUser(noteLoads[i]))
    /\ notesLoading' = FALSE
    /\ UNCHANGED <<user, notesDeps, highlightVars>>
    /\ UNCHANGED besideAccount

\* if (error) throw error: load() rejects and nothing after the await runs
GetAllNotesRejects ==
  \E i \in 1..Len(noteLoads) :
    /\ noteLoads' = SubSeq(noteLoads, 1, i - 1) \o SubSeq(noteLoads, i + 1, Len(noteLoads))
    /\ UNCHANGED <<user, notesByKey, notesLoading, notesDeps, highlightVars>>
    /\ UNCHANGED besideAccount

NotesAllSettled == noteLoads = << >>

\* the state after construction of the parts no specification before the
\* reading view moves
LaterInit == ReaderInit /\ ThrottleInit /\ ToolsInit /\ HighlightsInit /\ NotesInit

(***************************************************************************)
(* Bounds of the model.                                                    *)
(***************************************************************************)
\* the longest free-form string handed to canonicalizeBook
MaxRawLen == 3
\* how many times canonicalizeBook is applied to its own result
MaxCalls == 2
\* the largest verse number typed into the search box
MaxVerse == 2
\* the most segments of a multi-reference search
MaxSegments == 2
\* how many searches are submitted through the search form
MaxSearches == 2

(***************************************************************************)
(* Inputs.                                                                 *)
(***************************************************************************)
\* every way to write s in upper and lower case letters
CaseVariants(s) ==
  LET lower == toLowerCase(s)
      letters == {i \in 1..Len(s) : lower[i] >= 97 /\ lower[i] <= 122}
  IN  {[i \in 1..Len(s) |-> IF i \in upper THEN lower[i] - 32 ELSE lower[i]] :
         upper \in SUBSET letters}

\* the abbreviations of the table, in any letter case, with and without the
\* space after a leading numeral
AbbreviationInputs ==
  UNION {CaseVariants(bookNameToAbbreviation[i].abbr)
           \cup CaseVariants(SelectSeq(bookNameToAbbreviation[i].abbr, LAMBDA c : c # 32)) :
         i \in 1..Len(bookNameToAbbreviation)}

SynonymInputs == {TELUGU_SYNONYMS[i].key : i \in 1..Len(TELUGU_SYNONYMS)}

John == <<74,111,104,110>>
TeluguJohn == <<3119,3147,3129,3134,3112,3137>>

\* "n John" as the tables spell it
NumberedJohn(n) == <<48 + n, 32>> \o John

\* John and its Telugu name, bare and with a numeral 1..3 before them, the
\* numeral an ASCII digit or a Telugu digit
NumeralInputs ==
  {John, TeluguJohn}
    \cup {<<d, 32>> \o base : d \in {49, 50, 51, 3175, 3176, 3177}, base \in {John, TeluguJohn}}

\* the characters of the free-form strings: space, "1", ":", ".", "-", "j",
\* "o", a zero-width space, the Telugu digit one, a Telugu letter
FreeAlphabet == {32, 49, 58, 46, 45, 106, 111, 8203, 3175, 3119}

RECURSIVE StringsUpTo(_)
StringsUpTo(n) ==
  IF n = 0 THEN { <<>> }
  ELSE LET shorter == StringsUpTo(n - 1)
       IN  shorter \cup {Append(s, c) : s \in shorter, c \in FreeAlphabet}

\* names every JavaScript object answers to, and a few strings with a suffix
ProbeInputs ==
  { <<99,111,110,115,116,114,117,99,116,111,114>>,    \* "constructor"
    <<95,95,112,114,111,116,111,95,95>>,              \* "__proto__"
    <<74,111,104,110,32,51,58,49,54>>,                \* "John 3:16"
    <<74,111,104,110,32,51>>,                         \* "John 3"
    <<120,32,49,58,49>>,                              \* "x 1:1"
    <<32,32>> }                                       \* two spaces

CanonInputs ==
  BookNames \cup AbbreviationInputs \cup SynonymInputs \cup NumeralInputs
    \cup StringsUpTo(MaxRawLen) \cup ProbeInputs

\* n in decimal digits, zero being the character of the digit 0
RECURSIVE ToDigits(_, _)
ToDigits(n, zero) ==
  IF n < 10 THEN << zero + n >>
  ELSE Append(ToDigits(n \div 10, zero), zero + (n % 10))

\* a reference as it is typed: "Book c:v" or "Book c:v-e"
RenderReference(t) ==
  LET zero == IF t.digits = "telugu" THEN 3174 ELSE 48
  IN  t.book \o <<32>> \o ToDigits(t.chapter, zero) \o <<58>> \o ToDigits(t.startVerse, zero)
        \o (IF t.endVerse = << >> THEN << >>
            ELSE <<45>> \o ToDigits(t.endVerse[1], zero))

\* book texts typed besides the canonical names, each with the last chapter
\* to try it with
OtherBookTexts ==
  { [text |-> <<88,121,122>>, last |-> 1],                                       \* "Xyz"
    [text |-> <<71,101,110>>, last |-> 50],                                      \* "Gen"
    [text |-> <<74,111>>, last |-> 24],                                          \* "Jo"
    [text |-> <<83,111,110,103>>, last |-> 8],                                   \* "Song"
    [text |-> <<49,32,84,105,109>>, last |-> 6],                                 \* "1 Tim"
    [text |-> <<99,111,110,115,116,114,117,99,116,111,114>>, last |-> 1],        \* "constructor"
    [text |-> TeluguJohn, last |-> 21],
    [text |-> <<49, 32>> \o TeluguJohn, last |-> 5] }

BookTexts ==
  {[text |-> BIBLE_META[i].name, last |-> BIBLE_META[i].chapters] : i \in 1..Len(BIBLE_META)}
    \cup OtherBookTexts

\* the references typed of a book text, over the chapters given: verses from
\* 0, with and without an end verse
ReferencesOf(b, chapters, digits) ==
  {[kind |-> "reference", book |-> b.text, chapter |-> c, startVerse |-> v,
    endVerse |-> e, digits |-> digits] :
      c \in chapters, v \in 0..MaxVerse,
      e \in { << >> } \cup {<<x>> : x \in 0..MaxVerse}}

\* the single references typed: in ASCII digits every chapter from 0 to one
\* past the last, in Telugu digits the first and the last chapters and the
\* ones next to them
TypedReferences ==
  UNION {ReferencesOf(b, 0..(b.last + 1), "ascii")
           \cup ReferencesOf(b, {0, 1, b.last, b.last + 1}, "telugu") :
         b \in BookTexts}

(***************************************************************************)
(* canonicalizeBook applied to a book text, then to its own result.        *)
(***************************************************************************)
InitCanon ==
  /\ LaterInit
  /\ raw \in CanonInputs
  /\ rets = << >>
  /\ typed = [kind |-> "none"]
  /\ refString = << >>
  /\ parsed = << >>
  /\ AppInit
  /\ GeminiInit
  /\ requests = << >>

CanonicalizeBook ==
  /\ Len(rets) < MaxCalls
  /\ LET arg == IF rets = << >> THEN raw ELSE rets[Len(rets)]
     IN  /\ IsString(arg)
         /\ rets' = Append(rets, canonicalizeBook(arg))
  /\ UNCHANGED laterVars
  /\ UNCHANGED <<raw, typed, refString, parsed, appVars, requests, geminiVars>>

NextCanon == CanonicalizeBook

SpecCanon == InitCanon /\ [][NextCanon]_vars

(***************************************************************************)
(* parseReferencesFromString applied to one typed reference.               *)
(***************************************************************************)
InitParse ==
  /\ LaterInit
  /\ typed \in TypedReferences
  /\ refString = RenderReference(typed)
  /\ parsed = << >>
  /\ raw = << >>
  /\ rets = << >>
  /\ AppInit
  /\ GeminiInit
  /\ requests = << >>

\* const refs = parseReferencesFromString(query)
ParseReferences ==
  /\ parsed = << >>
  /\ parsed' = << parseReferencesFromString(refString) >>
  /\ UNCHANGED laterVars
  /\ UNCHANGED <<raw, rets, typed, refString, appVars, requests, geminiVars>>

NextParse == ParseReferences

SpecParse == InitParse /\ [][NextParse]_vars

(***************************************************************************)
(* parseReferencesFromString applied to a list of references.              *)
(***************************************************************************)
\* the segments a list is made of: references that parse, references that do
\* not, an empty segment and a blank one
Segments ==
  { <<74,111,104,110,32,51,58,49,54>>,                      \* "John 3:16"
    <<49,32,84,105,109,32,50,58,49,45,52>>,                 \* "1 Tim 2:1-4"
    <<82,111,109,32,56,58,50,56>>,                          \* "Rom 8:28"
    TeluguJohn \o <<32,49,58,49>>,                          \* Telugu John, " 1:1"
    <<88,121,122,32,49,58,49>>,                             \* "Xyz 1:1"
    <<71,101,110,101,115,105,115,32,53,49,58,49>>,          \* "Genesis 51:1"
    <<74,111,104,110,32,51,58,53,45,50>>,                   \* "John 3:5-2"
    <<99,111,110,115,116,114,117,99,116,111,114,32,49,58,49>>,  \* "constructor 1:1"
    << >>,
    <<32>> }

\* the separators typed between two segments: "," ";" ", " " ; "
Separators == { <<44>>, <<59>>, <<44,32>>, <<32,59,32>> }

RECURSIVE JoinSegments(_, _)
JoinSegments(segments, separators) ==
  IF segments = << >> THEN << >>
  ELSE IF Len(segments) = 1 THEN segments[1]
  ELSE segments[1] \o separators[1] \o JoinSegments(Tail(segments), Tail(separators))

TypedLists ==
  UNION {{[kind |-> "list", segments |-> segs, separators |-> seps] :
            segs \in [1..n -> Segments],
            seps \in [1..(IF n = 0 THEN 0 ELSE n - 1) -> Separators]} :
         n \in 0..MaxSegments}

InitMulti ==
  /\ LaterInit
  /\ typed \in TypedLists
  /\ refString = JoinSegments(typed.segments, typed.separators)
  /\ parsed = << >>
  /\ raw = << >>
  /\ rets = << >>
  /\ AppInit
  /\ GeminiInit
  /\ requests = << >>

SpecMulti == InitMulti /\ [][NextParse]_vars

(***************************************************************************)
(* The search form: queries typed and submitted one after the other.       *)
(***************************************************************************)
Hyphen == 45
EnDash == 8211

\* s with every ASCII hyphen replaced by dash
WithDash(s, dash) == [i \in 1..Len(s) |-> IF s[i] = Hyphen THEN dash ELSE s[i]]

Romans == <<82,111,109,97,110,115>>

\* the verse ranges typed, as the README and the placeholder show them and a
\* few more: "Book c:v-e" with a hyphen or an en dash
TypedRanges ==
  {[kind |-> "range", book |-> b, chapter |-> c, startVerse |-> r[1], endVerse |-> r[2],
    dash |-> dash,
    text |-> WithDash(RenderReference([book |-> b, chapter |-> c, startVerse |-> r[1],
                                       endVerse |-> << r[2] >>, digits |-> "ascii"]), dash)] :
     b \in {John, Romans, TeluguJohn}, c \in {3, 8},
     r \in { <<16, 18>>, <<1, 4>>, <<2, 2>> }, dash \in {Hyphen, EnDash}}

\* a query that is no single range
OtherQuery(text) ==
  [kind |-> "other", book |-> << >>, chapter |-> 0, startVerse |-> 0, endVerse |-> 0,
   dash |-> Hyphen, text |-> text]

\* the other queries typed: single verses, lists, keywords, blanks
TypedOthers ==
  { OtherQuery(<< >>),
    OtherQuery(<<32,32>>),
    OtherQuery(<<74,111,104,110,32,51,58,49,54>>),                          \* "John 3:16"
    OtherQuery(<<32>> \o TeluguJohn \o <<32,51,58,49,54,32>>),              \* Telugu John, " 3:16"
    OtherQuery(<<74,111,104,110,32,51,58,48>>),                             \* "John 3:0"
    OtherQuery(<<74,111,104,110,32,51,58,49,54,44,32,80,115,97,108,109,32,50,51,58,49>>),
                                                                            \* "John 3:16, Psalm 23:1"
    OtherQuery(<<74,111,104,110,32,51,58,49,54,45,49,56,59,82,111,109,32,56,58,49,45,52>>),
                                                                            \* "John 3:16-18;Rom 8:1-4"
    OtherQuery(<<74,111,104,110,32,51,58,49,54,44,32,88,121,122,32,49,58,49>>),
                                                                            \* "John 3:16, Xyz 1:1"
    OtherQuery(<<71,101,110,101,115,105,115,32,53,49,58,49>>),              \* "Genesis 51:1"
    OtherQuery(<<108,111,118,101>>),                                        \* "love"
    OtherQuery(<<99,111,110,115,116,114,117,99,116,111,114,32,49,58,49>>) } \* "constructor 1:1"

SearchInputs == TypedRanges \cup TypedOthers

InitSearch ==
  /\ LaterInit
  /\ raw = << >>
  /\ rets = << >>
  /\ typed = [kind |-> "none"]
  /\ refString = << >>
  /\ parsed = << >>
  /\ AppInit
  /\ GeminiInit
  /\ requests = << >>

\* onChange={(e) => setSearchQuery(e.target.value)}: a query is typed into
\* the search field
TypeQuery ==
  /\ pc = "idle"
  /\ searches < MaxSearches
  /\ \E t \in SearchInputs :
       /\ typed' = t
       /\ searchQuery' = t.text
  /\ pc' = "typed"
  /\ outcome' = "none"
  /\ UNCHANGED laterVars
  /\ UNCHANGED <<raw, rets, refString, parsed, searchError, isSearchView, isSearching,
                 searchResults, selectedBook, selectedChapter, selectedVerseRef, searches,
                 requests, geminiVars>>

NextSearch ==
  \/ TypeQuery
  \/ HandleSearch
  \/ FetchParsedSettles
  \/ KeywordSettles
  \/ FetchKeywordSettles
  \/ handleClearSearch

SpecSearch == InitSearch /\ [][NextSearch]_vars

(***************************************************************************)
(* The Bible API fetcher called with a book text of any kind.              *)
(***************************************************************************)
InitFetch ==
  /\ LaterInit
  /\ raw \in CanonInputs
  /\ rets = << >>
  /\ typed = [kind |-> "none"]
  /\ refString = << >>
  /\ parsed = << >>
  /\ AppInit
  /\ GeminiInit
  /\ requests = << >>

\* fetchChapter(book, chapter) up to its await
FetchChapter ==
  /\ requests = << >>
  /\ \E chapter \in 1..MaxVerse : requests' = fetchChapterRequests(raw, chapter)
  /\ UNCHANGED laterVars
  /\ UNCHANGED <<parseVars, appVars, geminiVars>>

\* fetchVersesByReferences(references) up to its await, the references being
\* of the book text: a verse, or a verse and a range
FetchVersesByReferences ==
  /\ requests = << >>
  /\ \E n \in 1..2 :
       requests' = fetchVersesByReferencesRequests(
                     SubSeq(<< [book |-> raw, chapter |-> 1, startVerse |-> 1, endVerse |-> << >>],
                               [book |-> raw, chapter |-> 2, startVerse |-> 1, endVerse |-> << MaxVerse >>] >>,
                            1, n))
  /\ UNCHANGED laterVars
  /\ UNCHANGED <<parseVars, appVars, geminiVars>>

NextFetch == FetchChapter \/ FetchVersesByReferences

SpecFetch == InitFetch /\ [][NextFetch]_vars

(***************************************************************************)
(* findBookMetadata applied to a book text.                                *)
(***************************************************************************)
\* the beginnings of the canonical names, short of the whole name
NamePrefixes ==
  UNION {{SubSeq(BIBLE_META[i].name, 1, k) : k \in 1..(Len(BIBLE_META[i].name) - 1)} :
         i \in 1..Len(BIBLE_META)}

InitMeta ==
  /\ LaterInit
  /\ raw \in CanonInputs \cup NamePrefixes
  /\ rets = << >>
  /\ typed = [kind |-> "none"]
  /\ refString = << >>
  /\ parsed = << >>
  /\ AppInit
  /\ GeminiInit
  /\ requests = << >>

\* const bookMeta = findBookMetadata(bookCandidate)
FindBookMetadata ==
  /\ rets = << >>
  /\ rets' = << findBookMetadata(raw) >>
  /\ UNCHANGED laterVars
  /\ UNCHANGED <<raw, typed, refString, parsed, appVars, requests, geminiVars>>

SpecMeta == InitMeta /\ [][FindBookMetadata]_vars

(***************************************************************************)
(* The transliteration sanitizer applied to a string.                      *)
(***************************************************************************)
\* the longest string handed to the sanitizer
MaxTranslitLen == 4

\* the characters of those strings: "a", "1", an apostrophe, a hyphen, a
\* space, a macron letter, a modifier apostrophe, a combining acute, a period
TranslitAlphabet == {97, 49, 39, 45, 32, 257, 700, 769, 46}

RECURSIVE TranslitsUpTo(_)
TranslitsUpTo(n) ==
  IF n = 0 THEN { << >> }
  ELSE LET shorter == TranslitsUpTo(n - 1)
       IN  shorter \cup {Append(s, c) : s \in shorter, c \in TranslitAlphabet}

InitSanitize ==
  /\ LaterInit
  /\ raw \in TranslitsUpTo(MaxTranslitLen)
  /\ rets = << >>
  /\ typed = [kind |-> "none"]
  /\ refString = << >>
  /\ parsed = << >>
  /\ AppInit
  /\ GeminiInit
  /\ requests = << >>

\* const cleaned = sanitizeModelTranslitOptionB(inner)
Sanitize ==
  /\ rets = << >>
  /\ rets' = << sanitizeModelTranslitOptionB(raw) >>
  /\ UNCHANGED laterVars
  /\ UNCHANGED <<raw, typed, refString, parsed, appVars, requests, geminiVars>>

SpecSanitize == InitSanitize /\ [][Sanitize]_vars

(***************************************************************************)
(* The interlinear branch applied to an answer of the generator.           *)
(***************************************************************************)
\* the most triples of a Word-by-Word section
MaxTriples == 2

\* the source words of the triples: Greek words (one plain, one elided with
\* an ASCII apostrophe, one elided with the apostrophe U+2019 of printed
\* Greek) and a pointed Hebrew word
SourceWords(script) ==
  IF script = "greek"
    THEN { <<7974,957>>, <<7936,955,955,39>>, <<7936,955,955,8217>> }
    ELSE { <<1489,1464,1468,1512,1464,1488>> }

\* transliterations and glosses: "en" and "was", a macron and two words,
\* a gloss that ends in a period
Meanings ==
  { [translit |-> <<101,110>>, gloss |-> <<119,97,115>>],
    [translit |-> <<275,110>>, gloss |-> <<116,104,101,32,119,111,114,100>>],
    [translit |-> <<101,110>>, gloss |-> <<119,97,115,46>>] }

Triples(script) ==
  {[word |-> w, translit |-> mg.translit, gloss |-> mg.gloss] :
     w \in SourceWords(script), mg \in Meanings}

\* what stands between two triples: a space, a line break, two spaces
TripleSeparators == { <<32>>, <<10>>, <<32,32>> }

\* `<word> (<transliteration>) - <gloss>` as the prompt asks for it
RenderTriple(t) == t.word \o <<32,40>> \o t.translit \o <<41,32,45,32>> \o t.gloss

RenderTriples(triples, separators) ==
  JoinSegments([i \in 1..Len(triples) |-> RenderTriple(triples[i])], separators)

\* the sections 1 to 3 of an answer, as the prompt lays them out
Preamble(script) ==
  <<42,42,49,46,32>>
    \o (IF script = "greek" THEN <<71,114,101,101,107>> ELSE <<72,101,98,114,101,119>>)
    \o <<32,84,101,120,116,58,42,42,10>>
    \o (IF script = "greek" THEN <<7974,957>> ELSE <<1489,1464,1468,1512,1464,1488>>)
    \o <<10,10,45,45,45,10,10>>
    \o NormalHeader(2) \o <<10,275,110,10,10,45,45,45,10,10>>
    \o NormalHeader(3) \o <<10,119,97,115,10,10,45,45,45,10,10>>

\* an answer of the generator: the Word-by-Word section alone under a plain
\* header ("4. Word by Word Analysis") or after the sections 1 to 3 under
\* the header of the prompt, and after it the "---" of the prompt's format
\* or nothing
RenderAnswer(t) ==
  (IF t.preamble
     THEN Preamble(t.script) \o NormalHeader(4) \o <<10>>
     ELSE <<52,46,32,87,111,114,100,32,98,121,32,87,111,114,100,32,65,110,97,108,121,115,105,115,13,10>>)
    \o RenderTriples(t.triples, t.separators)
    \o (IF t.trailer THEN <<10,10,45,45,45>> ELSE << >>)

TypedAnswers ==
  UNION {{[kind |-> "interlinear", script |-> script, triples |-> ts, separators |-> seps,
           preamble |-> pre, trailer |-> tr] :
            ts \in [1..n -> Triples(script)], seps \in [1..(n - 1) -> TripleSeparators],
            pre \in BOOLEAN, tr \in BOOLEAN} :
         n \in 1..MaxTriples, script \in {"greek", "hebrew"}}

InitInterlinear ==
  /\ LaterInit
  /\ typed \in TypedAnswers
  /\ raw = RenderAnswer(typed)
  /\ rets = << >>
  /\ refString = << >>
  /\ parsed = << >>
  /\ AppInit
  /\ GeminiInit
  /\ requests = << >>

\* getVerseAnalysis(verseRef, "Interlinear") from the answer of the
\* generator to finalText
Interlinear ==
  /\ rets = << >>
  /\ rets' = << InterlinearText(raw) >>
  /\ UNCHANGED laterVars
  /\ UNCHANGED <<raw, typed, refString, parsed, appVars, requests, geminiVars>>

SpecInterlinear == InitInterlinear /\ [][Interlinear]_vars

(***************************************************************************)
(* getVerseAnalysis called again and again, the calls running concurrently.*)
(***************************************************************************)
InitAnalysis ==
  /\ LaterInit
  /\ raw = << >>
  /\ rets = << >>
  /\ typed = [kind |-> "none"]
  /\ refString = << >>
  /\ parsed = << >>
  /\ AppInit
  /\ GeminiInit
  /\ requests = << >>

NextAnalysis ==
  \/ GetVerseAnalysis
  \/ GenerateSettles
  \/ TranslateSettles

SpecAnalysis == InitAnalysis /\ [][NextAnalysis]_vars

(***************************************************************************)
(* The chat: messages sent in the three modes.                             *)
(***************************************************************************)
InitChat ==
  /\ LaterInit
  /\ raw = << >>
  /\ rets = << >>
  /\ typed = [kind |-> "none"]
  /\ refString = << >>
  /\ parsed = << >>
  /\ AppInit
  /\ GeminiInit
  /\ requests = << >>

NextChat ==
  \/ SendMessageToBot
  \/ ReplySettles

SpecChat == InitChat /\ [][NextChat]_vars

(***************************************************************************)
(* The transliteration into Telugu script applied to an ASCII text.        *)
(***************************************************************************)
\* the longest transliteration typed in Latin letters
MaxLatinLen == 4

\* the letters of the inputs: the vowels a, e, i, o, u, the consonants n, g
\* and h (and with them the digraphs ng and gh), a capital vowel, a space
LatinAlphabet == {97, 101, 105, 111, 117, 110, 103, 104, 65, 32}

LatinsUpTo(n) == UNION {[1..k -> LatinAlphabet] : k \in 0..n}

InitTelugu ==
  /\ LaterInit
  /\ raw \in LatinsUpTo(MaxLatinLen)
  /\ rets = << >>
  /\ typed = [kind |-> "none"]
  /\ refString = << >>
  /\ parsed = << >>
  /\ AppInit
  /\ GeminiInit
  /\ requests = << >>

\* transliterateLatinToTelugu(raw)
TransliterateLatinToTelugu ==
  /\ rets = << >>
  /\ rets' = << transliterateLatinToTelugu(raw) >>
  /\ UNCHANGED laterVars
  /\ UNCHANGED <<raw, typed, refString, parsed, appVars, requests, geminiVars>>

SpecTelugu == InitTelugu /\ [][TransliterateLatinToTelugu]_vars

(***************************************************************************)
(* The selection of the book and the chapter: the navigation pane, the     *)
(* next and previous buttons, the URL hash, the search for one reference.  *)
(***************************************************************************)
\* the queries of one reference typed: a verse, and a chapter the book has not
ReferenceQueries ==
  { OtherQuery(<<74,111,104,110,32,51,58,49,54>>),                          \* "John 3:16"
    OtherQuery(<<71,101,110,101,115,105,115,32,53,49,58,49>>) }             \* "Genesis 51:1"

InitNavigate == InitSearch

\* how many references are searched for
MaxReferences == 1

\* a query of one reference is typed into the search field
TypeReference ==
  /\ pc = "idle"
  /\ ~isModalOpen
  /\ searches < MaxReferences
  /\ \E t \in ReferenceQueries :
       /\ typed' = t
       /\ searchQuery' = t.text
  /\ pc' = "typed"
  /\ outcome' = "none"
  /\ UNCHANGED laterVars
  /\ UNCHANGED <<raw, rets, refString, parsed, searchError, isSearchView, isSearching,
                 searchResults, selectedBook, selectedChapter, selectedVerseRef, searches,
                 requests, geminiVars>>

\* the handlers of the page run while no modal covers their buttons
NextNavigate ==
  \/ ~isModalOpen /\ HandleNextChapter
  \/ ~isModalOpen /\ HandlePreviousChapter
  \/ HandleOpenModal
  \/ HandleBookSelect
  \/ HandleChapterSelect
  \/ HandleHashChange
  \/ TypeReference
  \/ HandleSearch

SpecNavigate == InitNavigate /\ [][NextNavigate]_vars

(***************************************************************************)
(* The reading view: selections, and the loads of the chapter they start.  *)
(***************************************************************************)
\* how many loads of a chapter are started
MaxLoads == 3

\* a handler of the selection runs after the effects of the last render,
\* and while a load may still be started
Selectable == EffectsFlushed /\ started < MaxLoads

NextReader ==
  \/ LoadVersesEffect
  \/ EffectsFlushed /\ LoadSettles
  \/ Selectable /\ ~isModalOpen /\ HandleNextChapter
  \/ Selectable /\ ~isModalOpen /\ HandlePreviousChapter
  \/ Selectable /\ HandleOpenModal
  \/ Selectable /\ HandleBookSelect
  \/ Selectable /\ HandleChapterSelect
  \/ Selectable /\ HandleHashChange

SpecReader == InitNavigate /\ [][NextReader]_vars

(***************************************************************************)
(* safeGenerate called at any times, its waits and its requests            *)
(* interleaved in any order.                                               *)
(***************************************************************************)
NextThrottle ==
  \/ SafeGenerateCalled
  \/ GapTimerFires
  \/ GenerateContentFails
  \/ GenerateContentAnswers
  \/ TimePasses

SpecThrottle == InitNavigate /\ [][NextThrottle]_vars

(***************************************************************************)
(* The tabs of a verse: tabs, languages and verses chosen in any order     *)
(* while the loads of the tabs settle in any order.                        *)
(***************************************************************************)
MaxToolLoads == 3

\* a handler runs after the effects of the last render, and while a load
\* may still be started
ToolsSelectable == ToolsFlushed /\ toolStarted < MaxToolLoads

NextTools ==
  \/ VerseToolsEffects
  \/ ToolsFlushed /\ LoadTabSettles
  \/ ToolsSelectable /\ SelectTab
  \/ ToolsSelectable /\ ToggleLanguage
  \/ ToolsSelectable /\ VerseRefChanges

SpecTools == InitNavigate /\ [][NextTools]_vars

(***************************************************************************)
(* The highlights of the chapter on the page: sign-ins, sign-outs,         *)
(* chapters and toggles in any order, the table serving the requests and   *)
(* the answers arriving in any order.                                      *)
(***************************************************************************)
MaxHlLoads == 2

MaxHlWrites == 1

HlChangeable == HighlightsFlushed /\ requestIdRef < MaxHlLoads

\* the upserts and deletes that have not reached the table
HlWrites == {req \in hlRequests : req.kind # "getHighlights"}

NextHighlights ==
  \/ HighlightsEffect
  \/ GetHighlightsServed
  \/ HighlightWritten
  \/ HighlightsFlushed /\ GetHighlightsResolves
  \/ HighlightsFlushed /\ GetHighlightsRejects
  \/ HighlightsFlushed /\ Cardinality(HlWrites) < MaxHlWrites /\ ToggleHighlight
  \/ HlChangeable /\ AuthStateChanges
  \/ HlChangeable /\ selectedChapter + 1 \in HlChapters /\ HandleNextChapter
  \/ HlChangeable /\ HandlePreviousChapter

SpecHighlights == InitNavigate /\ [][NextHighlights]_vars

(***************************************************************************)
(* The notes of the user: sign-ins and sign-outs in any order while the    *)
(* loads of the notes settle in any order.                                 *)
(***************************************************************************)
MaxNoteLoads == 3

NextNotes ==
  \/ NotesEffect
  \/ NotesFlushed /\ GetAllNotesResolves
  \/ NotesFlushed /\ GetAllNotesRejects
  \/ NotesFlushed /\ Len(noteLoads) < MaxNoteLoads /\ AuthStateChanges

SpecNotes == InitNavigate /\ [][NextNotes]_vars

(***************************************************************************)
(* Properties.                                                             *)
(***************************************************************************)
\* the number of chapters of the canonical book of that name
ChaptersOf(name) ==
  BIBLE_META[CHOOSE i \in 1..Len(BIBLE_META) : BIBLE_META[i].name = name].chapters

\* the one reference a typed reference stands for, under the book name given
ReferenceTyped(book) ==
  [book |-> book, chapter |-> typed.chapter, startVerse |-> typed.startVerse,
   endVerse |-> typed.endVerse]

\* C1: for every canonical book name B, every chapter c of B and verses
\* 1 <= v <= e, parsing "B c:v" returns exactly the one reference
\* {B, c, v, undefined} and parsing "B c:v-e" exactly {B, c, v, e}
C1_CanonicalReferenceParses ==
  ( /\ parsed # << >>
    /\ typed.digits = "ascii"
    /\ typed.book \in BookNames
    /\ typed.chapter >= 1 /\ typed.chapter <= ChaptersOf(typed.book)
    /\ typed.startVerse >= 1
    /\ (typed.endVerse # << >> => typed.endVerse[1] >= typed.startVerse) )
  => parsed[1] = [threw |-> FALSE, refs |-> << ReferenceTyped(typed.book) >>]

C3_ReturnedReferencesValid ==
  parsed # << >> =>
    \A i \in 1..Len(parsed[1].refs) :
      LET ref == parsed[1].refs[i]
      IN  /\ ref.book \in BookNames
          /\ ref.chapter >= 1
          /\ ref.chapter <= ChaptersOf(ref.book)
          /\ ref.startVerse >= 1
          /\ (ref.endVerse # << >> => ref.endVerse[1] >= ref.startVerse)

\* the references the segments give when each is parsed alone, in order
RECURSIVE ReferencesOfEach(_)
ReferencesOfEach(segments) ==
  IF segments = << >> THEN << >>
  ELSE parseReferencesFromString(Head(segments)).refs \o ReferencesOfEach(Tail(segments))

\* C4: parsing a list of segments separated by ";" or "," returns the
\* references of the segments that parse, in the order of the segments; a
\* segment that fails to parse and an empty segment contribute nothing, and
\* the empty input gives the empty list
C4_ListInOrder ==
  parsed # << >> =>
    parsed[1] = [threw |-> FALSE, refs |-> ReferencesOfEach(typed.segments)]

\* C5: John and its Telugu name with a numeral n in 1..3 before them, in ASCII
\* or Telugu digits, canonicalize to the book "n John"; without a numeral they
\* canonicalize to "John", a different book
C5_NumeralDisambiguation ==
  rets # << >> =>
    /\ raw \in {John, TeluguJohn} => rets[1] = John
    /\ \A n \in 1..3 : \A base \in {John, TeluguJohn} :
         raw \in { <<48 + n, 32>> \o base, <<3174 + n, 32>> \o base }
           => rets[1] = NumberedJohn(n) /\ rets[1] # canonicalizeBook(base)

\* the Telugu name of John after the Telugu digit two gives "2 John"
C5_Witness ==
  /\ raw = <<3176, 32>> \o TeluguJohn
  /\ rets # << >>
  /\ rets[1] = NumberedJohn(2)

\* C6: canonicalizeBook of every key of TELUGU_SYNONYMS is the name the table
\* maps the key to
C6_SynonymsResolve ==
  rets # << >> =>
    \A i \in 1..Len(TELUGU_SYNONYMS) :
      raw = TELUGU_SYNONYMS[i].key => rets[1] = TELUGU_SYNONYMS[i].value

\* the romanized stub "roms" gives "Romans"
C6_Witness ==
  /\ raw = <<114,111,109,115>>
  /\ rets # << >>
  /\ rets[1] = <<82,111,109,97,110,115>>

\* C7: canonicalizeBook of the abbreviation of every book, in any letter case
\* and with or without the space after a leading numeral, is the name of the book
C7_AbbreviationsResolve ==
  rets # << >> =>
    \A i \in 1..Len(bookNameToAbbreviation) :
      LET abbr == toLowerCase(bookNameToAbbreviation[i].abbr)
      IN  toLowerCase(raw) \in {abbr, SelectSeq(abbr, LAMBDA c : c # 32)}
            => rets[1] = bookNameToAbbreviation[i].name

\* "1SAM", upper case and no space, gives "1 Samuel"
C7_Witness ==
  /\ raw = <<49,83,65,77>>
  /\ rets # << >>
  /\ rets[1] = <<49,32,83,97,109,117,101,108>>

\* C8: for every canonical name x, canonicalizeBook(canonicalizeBook(x)) is
\* canonicalizeBook(x)
C8_IdempotentOnCanonical ==
  (raw \in BookNames /\ Len(rets) >= 2) => rets[2] = rets[1]

\* "1 Timothy", whose bare part is no key of any table, canonicalized twice
C8_Witness ==
  /\ raw = <<49,32,84,105,109,111,116,104,121>>
  /\ Len(rets) = 2
  /\ rets[2] = raw

\* C9: canonicalizeBook returns a string for every input string, and the
\* string is a name of the canonical table or the input with its white space
\* normalized
C9_TotalOnStrings ==
  rets # << >> =>
    /\ IsString(rets[1])
    /\ (rets[1] \in BookNames \/ rets[1] = normalizeWhitespace(raw))

\* C10: a reference with its chapter and verse in Telugu digits parses to what
\* the same reference in ASCII digits parses to
C10_TeluguDigitsParse ==
  (parsed # << >> /\ typed.digits = "telugu") =>
    parsed[1] = parseReferencesFromString(RenderReference([typed EXCEPT !.digits = "ascii"]))

(***************************************************************************)
(* The search form.                                                        *)
(***************************************************************************)
\* s with every en dash replaced by an ASCII hyphen
Hyphenated(s) == [i \in 1..Len(s) |-> IF s[i] = EnDash THEN Hyphen ELSE s[i]]

\* the state in which handleSearch has run on the query typed last
SearchSubmitted == pc # "typed" /\ outcome \notin {"none", "ignored"}

\* C11: a verse range typed in the search field with an en dash ("John
\* 3:16–18") is parsed as one reference with its startVerse and endVerse, as
\* the same range typed with an ASCII hyphen is, and the search navigates to
\* it instead of going to the keyword search.
C11_EnDashRangeParsed ==
  (typed.kind = "range" /\ typed.dash = EnDash /\ SearchSubmitted)
    => /\ outcome = "navigated"
       /\ parsed[1] = parseReferencesFromString(normalizeTeluguReference(Hyphenated(typed.text)))
       /\ Len(parsed[1].refs) = 1
       /\ parsed[1].refs[1].startVerse = typed.startVerse
       /\ parsed[1].refs[1].endVerse = << typed.endVerse >>

\* what the user sees when a search has ended
Navigated == outcome = "navigated" /\ ~isSearchView /\ searchError = << >>
ResultsShown == outcome = "results" /\ isSearchView /\ searchError = << >>
MessageShown == searchError # << >> /\ isSearchView

\* C13: every search submitted through handleSearch ends in exactly one of a
\* navigation to the single parsed reference, a displayed result list, or a
\* displayed message; whenever it ends with searchError set, the search view
\* is active, so that the message is shown.
C13_SearchEndsShown ==
  [][(pc # "idle" /\ pc' = "idle" /\ outcome' # "ignored")
       => /\ (Navigated \/ ResultsShown \/ MessageShown)'
          /\ (searchError # << >> => isSearchView)']_vars

(***************************************************************************)
(* The Bible API fetcher.                                                  *)
(***************************************************************************)
\* C12: every book name that fetchChapter and fetchVersesByReferences place
\* into a request to the verse API is one of the 66 canonical English names,
\* whatever book text the caller passed.
C12_RequestsNameCanonicalBooks ==
  \A i \in 1..Len(requests) : requests[i].book \in BookNames

(***************************************************************************)
(* findBookMetadata.                                                       *)
(***************************************************************************)
\* canonicalizeBook returns from one of its two starts-with branches: the
\* English partial match, or the last fallback
StartsWithBranch(withoutCv, num, name) ==
  LET hasNum == Truthy(num)
      lowerName == toLowerCase(name)
      isAscii == \A i \in 1..Len(name) : name[i] <= 127
      abbrTry == tryEnglishAbbreviation((IF hasNum THEN num \o <<32>> ELSE <<>>) \o name)
      direct == FindBookNamed(lowerName)
      starts == FindBookStartingWith(lowerName)
      tries == (IF hasNum
                  THEN << num \o <<32>> \o name, num \o name, name \o <<32>> \o num >>
                  ELSE << >>) \o << name >>
      found == FirstLookup(TryLookups(tries[1])
                 \o (IF hasNum
                       THEN TryLookups(tries[2]) \o TryLookups(tries[3]) \o TryLookups(tries[4])
                       ELSE << >>))
      abbr == tryEnglishAbbreviation(withoutCv)
  IN  IF isAscii /\ Truthy(abbrTry) THEN FALSE
      ELSE IF isAscii /\ direct # 0 THEN FALSE
      ELSE IF isAscii /\ starts # 0 THEN TRUE
      ELSE IF Truthy(found) THEN FALSE
      ELSE IF Truthy(abbr) THEN FALSE
      ELSE starts # 0

\* findBookMetadata(query) resolves the book by a starts-with match: in
\* canonicalizeBook, or in its own starts-with fallback
ResolvedByPartialMatch(query) ==
  LET cleaned == trim(query)
      withoutCv == stripChapterVerse(normalizeWhitespace(cleaned))
      np == extractNumericPrefix(withoutCv)
      eng == canonicalizeBook(cleaned)
  IN  /\ cleaned # << >>
      /\ \/ StartsWithBranch(withoutCv, np.num, np.name)
         \/ /\ IsString(eng)
            /\ FindBookNamed(toLowerCase(eng)) = 0
            /\ FindBookStartingWith(toLowerCase(eng)) # 0

\* C14: the metadata findBookMetadata returns carries wasFuzzy = true exactly
\* when the book was resolved by a partial (starts-with) match, and carries no
\* true wasFuzzy when an exact name, abbreviation or synonym key resolved it.
C14_WasFuzzyFlagsPartialMatch ==
  (rets # << >> /\ rets[1].kind = "meta")
    => (Truthy(MetaGet(rets[1], "wasFuzzy")) <=> ResolvedByPartialMatch(raw))

(***************************************************************************)
(* The transliteration sanitizer.                                          *)
(***************************************************************************)
\* C18: for every input string the output of sanitizeModelTranslitOptionB
\* holds only ASCII letters, ASCII digits, apostrophes, hyphens and white
\* space, holds no two consecutive apostrophes and no two consecutive
\* hyphens, and neither begins nor ends with white space.
C18_SanitizedShape ==
  rets # << >> =>
    LET out == rets[1]
    IN  /\ \A i \in 1..Len(out) : IsAsciiAlnum(out[i]) \/ out[i] \in {39, 45} \/ IsWs(out[i])
        /\ \A i \in 1..(Len(out) - 1) : ~(out[i] = 39 /\ out[i + 1] = 39)
        /\ \A i \in 1..(Len(out) - 1) : ~(out[i] = 45 /\ out[i + 1] = 45)
        /\ out # << >> => (~IsWs(out[1]) /\ ~IsWs(out[Len(out)]))

\* the sanitizer has run on a string that begins with white space and holds a
\* character outside ASCII and two apostrophes in a row, and something is left
C18_Witness ==
  /\ rets # << >>
  /\ rets[1] # << >>
  /\ Len(raw) > 0 /\ IsWs(raw[1])
  /\ \E i \in 1..Len(raw) : raw[i] > 127
  /\ \E i \in 1..(Len(raw) - 1) : MapChar(raw[i]) = <<39>> /\ MapChar(raw[i + 1]) = <<39>>

(***************************************************************************)
(* The Word-by-Word section of an interlinear analysis.                    *)
(***************************************************************************)
\* the lines under the header of section 4 in finalText
SectionLines(finalText) ==
  LET at == {p \in 1..(Len(finalText) - Len(NormalHeader(4))) :
               SubSeq(finalText, p, p + Len(NormalHeader(4))) = NormalHeader(4) \o <<10>>}
  IN  IF at = { } THEN << >>
      ELSE SplitLines(SubSeq(finalText, Leftmost(at) + Len(NormalHeader(4)) + 1, Len(finalText)))

\* the line of a triple: the word, the transliteration as the sanitizer
\* leaves it, the gloss
LineOf(t, gloss) ==
  t.word \o <<32,40>> \o sanitizeModelTranslitOptionB(t.translit) \o <<41,32,45,32>> \o gloss

\* a gloss without the periods, commas and semicolons at its end
Unpunctuated(gloss) ==
  SubSeq(gloss, 1,
         Leftmost({i \in 1..(Len(gloss) + 1) : \A k \in i..Len(gloss) : gloss[k] \in {46, 44, 59}}) - 1)

\* the section holds as many lines as the answer held triples, and its i-th
\* line is the i-th triple (with or without the punctuation that ended its
\* gloss)
OneLinePerTriple ==
  /\ Len(SectionLines(rets[1])) = Len(typed.triples)
  /\ \A i \in 1..Len(typed.triples) :
       SectionLines(rets[1])[i] \in {LineOf(typed.triples[i], typed.triples[i].gloss),
                                     LineOf(typed.triples[i], Unpunctuated(typed.triples[i].gloss))}

\* C16: when the Word-by-Word section of an answer for a New Testament verse
\* consists of N >= 1 triples `<Greek word> (<transliteration>) - <gloss>`,
\* on one line or on several, the section of the text returned holds exactly
\* N lines and the i-th line is the i-th triple.
C16_GreekTriplesOnePerLine ==
  (rets # << >> /\ typed.script = "greek" /\ ~typed.trailer) => OneLinePerTriple

\* C17: when the Word-by-Word section of an answer for an Old Testament verse
\* consists of N >= 1 triples `<Hebrew word> (<transliteration>) - <gloss>`,
\* on one line or on several, the section of the text returned holds exactly
\* N lines and the i-th line is the i-th triple.
C17_HebrewTriplesOnePerLine ==
  (rets # << >> /\ typed.script = "hebrew" /\ ~typed.trailer) => OneLinePerTriple

(***************************************************************************)
(* The cache of analyses.                                                  *)
(***************************************************************************)
\* the cache key of the i-th call
KeyOfCall(i) == cacheKey(calls[i].verseRef, calls[i].analysisType, calls[i].language)

\* C15: once getVerseAnalysis has returned a text for a key (book, chapter,
\* verse, analysisType, language), every call with the same key made after
\* that return returns the same text and does not ask the generator,
\* whatever other calls were made or were running in between.
C15_CachedAnalysisStable ==
  \A a \in 1..Len(returned) : \A b \in 1..Len(returned) :
    (/\ calls[returned[b].call].seen >= a
     /\ KeyOfCall(returned[b].call) = KeyOfCall(returned[a].call))
      => /\ returned[b].value = returned[a].value
         /\ ~calls[returned[b].call].generated

(***************************************************************************)
(* The chat modes.                                                         *)
(***************************************************************************)
\* C20: a message sent in a chat mode goes to the model of that mode: in
\* Fast mode to gemini-2.5-flash-lite, in Standard mode to gemini-2.5-flash,
\* in Deep Thought mode to gemini-2.5-pro.
C20_ModeSendsToItsModel ==
  \A i \in 1..Len(calls) :
    requests[calls[i].request].model =
      (CASE calls[i].mode = "FAST" -> "gemini-2.5-flash-lite"
         [] calls[i].mode = "STANDARD" -> "gemini-2.5-flash"
         [] calls[i].mode = "DEEP_THOUGHT" -> "gemini-2.5-pro")

(***************************************************************************)
(* The transliteration into Telugu script.                                 *)
(***************************************************************************)
\* the dependent vowel signs the rules write: those of aa, i, ii, u, uu, e,
\* o, ai, au (the vowel a writes none)
VowelSigns == {3134, 3135, 3136, 3137, 3138, 3142, 3146, 3144, 3148}

\* C19: no word of the output of transliterateLatinToTelugu begins with a
\* dependent vowel sign: a vowel sign never stands first in the output nor
\* after white space, the carrier being placed before it.
C19_NoWordBeginsWithVowelSign ==
  rets # << >> =>
    \A p \in 1..Len(rets[1]) :
      rets[1][p] \in VowelSigns => (p > 1 /\ ~IsWs(rets[1][p - 1]))

(***************************************************************************)
(* canonicalizeBook on an input without a book name.                       *)
(***************************************************************************)
\* nothing is left of the input once the white space and a chapter:verse
\* suffix are taken off
EmptyBookPortion(s) == stripChapterVerse(normalizeWhitespace(s)) = << >>

\* C30: canonicalizeBook resolves no input with an empty book-name portion
\* (white space only, or only a chapter:verse suffix such as "3:16") to a
\* book: the result is the whitespace-normalized input and no canonical name.
C30_EmptyBookPortionUnresolved ==
  (rets # << >> /\ EmptyBookPortion(raw))
    => (rets[1] = normalizeWhitespace(raw) /\ rets[1] \notin BookNames)

\* the selection is a chapter of the table
SelectionInTable ==
  /\ selectedBook \in BookNames
  /\ selectedChapter >= 1
  /\ selectedChapter <= BIBLE_META[BookIndex(selectedBook)].chapters

\* the next-chapter handler ran at the last chapter of the last book, or the
\* previous-chapter handler at the first chapter of the first
AtAnEndOfTheBible ==
  \/ /\ HandleNextChapter
     /\ BookIndex(selectedBook) = Len(BIBLE_META)
     /\ selectedChapter = BIBLE_META[Len(BIBLE_META)].chapters
  \/ /\ HandlePreviousChapter
     /\ BookIndex(selectedBook) = 1
     /\ selectedChapter = 1

\* C25: after any sequence of navigations from Genesis 1 (the navigation
\* pane, next and previous chapter, the URL hash, the search for one
\* reference) selectedBook is a name of the table and selectedChapter one of
\* its chapters; next chapter at the last chapter of the last book and previous
\* chapter at Genesis 1 leave the selection as it is.
C25_SelectionStaysInTable ==
  [][/\ SelectionInTable'
     /\ AtAnEndOfTheBible => UNCHANGED <<selectedBook, selectedChapter>>]_vars

\* the last chapter of the last book was reached by navigation, after the
\* modal, the hash and the search each moved the selection
C25_Witness_EndReached ==
  /\ BookIndex(selectedBook) = Len(BIBLE_META)
  /\ selectedChapter = BIBLE_META[Len(BIBLE_META)].chapters
  /\ selectedVerseRef = << >>
  /\ searches > 0
  /\ selectionStep = "CHAPTER"

\* every call of fetchChapter has settled and no effect is left to run
AllFetchesSettled == loads = { } /\ EffectsFlushed

\* C21: for any sequence of selections, with the responses of fetchChapter
\* arriving in any order, once all fetches have settled the verses on display
\* are those of the selected book and chapter, or there are none and verseError
\* is set: no response for a chapter selected before is applied after a later
\* selection.
C21_DisplayedChapterIsSelected ==
  (AllFetchesSettled /\ ~isSearchView)
    => \/ verses = << [book |-> selectedBook, chapter |-> selectedChapter] >>
       \/ verses = << >> /\ verseError # << >>

\* a request is sent to the model in this step
RequestSent == log'.sent > log.sent

\* C23: any two requests safeGenerate sends to the model are at least MIN_GAP
\* (1500 ms) apart, for every interleaving of its calls, those included that
\* start while earlier calls wait for the gap or for a response.
C23_RequestsMinGapApart ==
  [][(RequestSent /\ log.request # << >>) => clock - log.request[1] >= MIN_GAP]_vars

\* the call passes the check of the cooldown in this step
ChecksCooldown(run) ==
  /\ run > Len(runs) \/ runs[run].pc = "setTimeout"
  /\ runs'[run].pc \in {"generateContent", "threw"}

\* nothing is sent in the 4000 ms after the failure of the time given, and the
\* calls that check the cooldown in them throw the cooling-down error
QuietAfter(failure) ==
  (failure # << >> /\ clock < failure[1] + Cooldown)
    => /\ ~RequestSent
       /\ \A run \in 1..Len(runs') :
            ChecksCooldown(run)
              => /\ runs'[run].pc = "threw"
                 /\ startsWith(settled'.value, CoolingDownPrefix)

\* C22 as stated: after a failure, received at time T, whose message contains
\* "429" or "RESOURCE_EXHAUSTED", safeGenerate sends no request before
\* T + 4000 ms: every call that checks the cooldown in that window throws the
\* cooling-down error, and every other call waits past the window.
C22_QuietAfterAnyRateLimitMessage == [][QuietAfter(log.limited)]_vars

\* C22, amended: the same for a failure whose message contains "429" or
\* "RESOURCE_EXHAUSTED" and none of '"code":503', "model is overloaded",
\* "UNAVAILABLE", which is the failure safeGenerate takes for a rate limit.
C22_QuietAfterRateLimit == [][QuietAfter(log.onlyLimited)]_vars

\* a rate limit was met, the call that checked the cooldown last threw the
\* cooling-down error, and a request is sent once the 4000 ms are over
C22_Witness_CooledDown ==
  /\ log.onlyLimited # << >>
  /\ log.request # << >>
  /\ log.request[1] >= log.onlyLimited[1] + Cooldown
  /\ startsWith(settled.value, CoolingDownPrefix)
  /\ \E run \in 1..Len(runs) : runs[run].pc = "generateContent"
  /\ clock = log.request[1]

\* C24: safeGenerate sorts a failure of the generator by a fixed precedence.
\* A message with '"code":503', "model is overloaded" or "UNAVAILABLE" gives
\* the overloaded error and leaves lastCall and globalCooldownUntil as they
\* are, even when it contains "429" too; else a message with "429" or
\* "RESOURCE_EXHAUSTED" gives the busy error and sets both to now + 4000; any
\* other failure is thrown on as it is, the cooldown untouched.
C24_FailurePrecedence ==
  [][\A run \in 1..Len(runs) :
       (runs[run].pc = "generateContent" /\ runs'[run].pc = "threw")
         => LET message == settled'.caught
                text == IF Truthy(message) THEN message ELSE << >>
            IN  IF \/ includes(text, <<34,99,111,100,101,34,58,53,48,51>>)
                   \/ includes(text, <<109,111,100,101,108,32,105,115,32,111,118,101,114,108,111,97,100,101,100>>)
                   \/ includes(text, <<85,78,65,86,65,73,76,65,66,76,69>>)
                  THEN /\ settled'.value = OverloadedMessage
                       /\ UNCHANGED <<lastCall, globalCooldownUntil>>
                ELSE IF includes(text, <<52,50,57>>) \/ includes(text, <<82,69,83,79,85,82,67,69,95,69,88,72,65,85,83,84,69,68>>)
                  THEN /\ settled'.value = BusyMessage
                       /\ lastCall' = clock + 4000
                       /\ globalCooldownUntil' = clock + 4000
                ELSE /\ settled'.value = message
                     /\ UNCHANGED <<lastCall, globalCooldownUntil>>]_vars

\* after a rate limit set the cooldown, a failure that names an overloaded
\* model and "429" was caught and thrown on as the overloaded error
C24_Witness_OverloadedFirst ==
  /\ Truthy(settled.caught)
  /\ includes(settled.caught, <<85,78,65,86,65,73,76,65,66,76,69>>)
  /\ includes(settled.caught, <<52,50,57>>)
  /\ settled.value = OverloadedMessage
  /\ globalCooldownUntil > 0

\* C26: in VerseTools the loading flag never stays true for ever.  Whatever
\* tabs, languages and verses were chosen, once every load of a tab that was
\* started has settled and the effects have run, loading is false and the
\* tab or the editor of the notes is shown, not the loading skeleton.
C26_LoadingEndsWithTheLoads ==
  (ToolsFlushed /\ toolLoads = {}) => (~loading /\ Shown # "LoadingSkeleton")

\* the answer of a load is the one setHighlights(map) is given
AnswerApplied == applied' # applied /\ applied' # << >>

C28_ShownAgreesWithStored ==
  (user # << >> /\ HighlightsFlushed /\ hlRequests = {} /\ hlError = << >>)
    => highlights = MapOfRows(RowsOf(stored, user[1], selectedBook, selectedChapter))

\* C29: notesByKey holds only notes of the signed-in user: no answer of a
\* getAllNotesForUser started for an earlier user is applied, so notesByKey
\* is empty whenever nobody is signed in and every load has settled.
C29_NoNotesWhenSignedOut ==
  (user = << >> /\ NotesFlushed /\ NotesAllSettled) => notesByKey = {}
=============================================================================
